---- MODULE Spec2Model ----
(***************************************************************************)
(* NeoUptime: the API-key rate limiter (models/ApiKey), the API-key and    *)
(* JWT middleware, the router's middleware chain, the peer selector and    *)
(* the node registry (models/Node), the transaction helper and the admin   *)
(* accounts (models/Admin), as state machines over the SQLite tables.      *)
(*                                                                         *)
(* Times are milliseconds since the epoch.  A stored timestamp is the text *)
(* produced by Date.toISOString(); it is modelled as the tuple of its      *)
(* fixed-width fields <<day, hour, minute, second, millisecond>> and text  *)
(* comparison in SQL as the lexicographic order of those tuples.           *)
(***************************************************************************)
EXTENDS Integers, Sequences, FiniteSets, TLC

VARIABLES now, tz, ticks, api_keys, nextKeyId, api_access_logs, last, reqs,
          nodes, peersCall, nextNodeId, node_status_history, writers,
          peersRes, statusRes, admins, nextAdminId, deleters, conn, calls,
          columns

extVars == <<statusRes, admins, nextAdminId, deleters, conn, calls, columns>>

nodeVars == <<nextNodeId, node_status_history, writers, peersRes>>

vars == <<now, tz, ticks, api_keys, nextKeyId, api_access_logs, last, reqs,
          nodes, peersCall, nextNodeId, node_status_history, writers,
          peersRes, statusRes, admins, nextAdminId, deleters, conn, calls,
          columns>>

\* the clock, the schema and the callers' own state: no statement writes them
clientVars == <<now, tz, ticks, columns, peersCall, writers, peersRes,
                statusRes, deleters>>

\* what no operation of the ApiKey class or of its middleware changes, but
\* for the ROLLBACK of transaction()
otherVars == <<clientVars, nodes, nextNodeId, node_status_history, admins,
               nextAdminId>>

\* what no operation of the Node class changes, but for the ROLLBACK of
\* transaction()
restVars == <<now, tz, ticks, columns, api_keys, nextKeyId, api_access_logs,
              reqs, admins, nextAdminId, deleters>>

-----------------------------------------------------------------------------
(* Bounds of the model *)

MaxLogs == 2
MaxTicks == 2
MaxReqs == 4
MaxRace == 2
MaxNodes == 2
MaxHistory == 2
MaxWriters == 2
MaxCalls == 2
MaxOverlap == 2
MaxAdmins == 3
MaxDeleters == 2

(* Program constants *)

Window == 60000
DefaultRateLimit == 1000

-----------------------------------------------------------------------------
(* Values *)

Null == [null |-> TRUE]
NullText == <<>>
NoRow == [absent |-> TRUE]

\* the accounts the ids stand for; the first is the one startServer creates
Usernames == <<"admin", "bob", "carol", "dave">>
Emails == <<"admin@example.com", "bob@example.com", "carol@example.com",
            "dave@example.com">>
QQNumbers == <<"10000", "20000", "30000", "40000">>

Account(i) ==
    [username |-> Usernames[i], email |-> Emails[i],
     qq_number |-> QQNumbers[i]]

KeyIds == {1, 2}
ReqIds == 1..MaxReqs
RaceIds == 1..MaxRace
NodeIds == 1..MaxNodes
WriterIds == 1..MaxWriters
CallIds == 1..MaxCalls
AdminIds == 1 .. MaxAdmins
KeyStrings == {"k1", "k2"}
RateLimits == {1, 2}
TickSteps == {1, 59999, 61000}
StartTimes == {0}
StatusCodes == {200}

Max(a, b) == IF a >= b THEN a ELSE b

\* `value || null` on a text: '' and undefined are stored as NULL
TextOrNull(value) == IF value = <<>> THEN NullText ELSE value

-----------------------------------------------------------------------------
(* Date *)

\* Date.prototype.toISOString: "YYYY-MM-DDTHH:mm:ss.sssZ", fields in UTC.
ToISOString(t) ==
    << t \div 86400000, (t \div 3600000) % 24, (t \div 60000) % 60,
       (t \div 1000) % 60, t % 1000 >>

\* SQLite's `a > b` on two ISO texts: lexicographic.
RECURSIVE TextGreater(_, _)
TextGreater(a, b) ==
    IF a = <<>> \/ b = <<>> THEN a # <<>> /\ b = <<>>
    ELSE IF Head(a) # Head(b) THEN Head(a) > Head(b)
    ELSE TextGreater(Tail(a), Tail(b))

\* The time zone of the process: local time is `before` ms east of UTC up
\* to the instant `at` and `after` ms east of UTC from it on.  A zone
\* without daylight saving time has one offset.  In FallBack the clocks go
\* back one hour, from 02:00 to 01:00 local time, two minutes after instant
\* 0, as those of America/New_York do on the first Sunday of November: the
\* local hour from 01:00 to 02:00 occurs twice.
Zone(before, at, after) == [before |-> before, at |-> at, after |-> after]
UTC == Zone(0, 0, 0)
Kolkata == Zone(19800000, 0, 19800000)
FallBack == Zone(7080000, 120000, 3480000)
Zones == {UTC, Kolkata, FallBack}

\* LocalTime(t): the local time of instant t
LocalTime(t, z) == t + (IF t < z.at THEN z.before ELSE z.after)

\* the instant of a local time, as the Date constructor resolves it: a
\* local time that occurs twice is its first occurrence, one that the
\* clocks skip is read with the offset before the transition
UTCOf(local, z) ==
    IF local - z.before < z.at THEN local - z.before
    ELSE IF local - z.after >= z.at THEN local - z.after
    ELSE local - z.before

\* new Date(y, m, d, h, min + 1, 0).getTime() with the fields of `t` read in
\* local time; an overflowing minute carries.
NextMinute(t, z) ==
    LET local == LocalTime(t, z)
        date == local \div 86400000
        hours == (local \div 3600000) % 24
        minutes == (local \div 60000) % 60
    IN  UTCOf(((date * 24 + hours) * 60 + (minutes + 1)) * 60000, z)

-----------------------------------------------------------------------------
(* The tables of the ApiKey model *)

\* the columns of api_keys as INITIALIZE_SQL creates the table
ApiKeysColumns ==
    {"id", "key", "description", "created_by", "created_at", "updated_at",
     "expires_at", "is_active", "last_used_at", "rate_limit"}

\* the columns api_keys can have in the database file that is opened:
\* CREATE TABLE IF NOT EXISTS gives a new file the columns of INITIALIZE_SQL
\* and leaves the table of an existing file as it is, so a file whose table
\* has the column last_used that the ApiKey class names keeps it.  The row
\* field last_used of the model is that column; it is never written when
\* the table does not have it.
Schemas == {ApiKeysColumns, ApiKeysColumns \cup {"last_used"}}

\* the User-Agent header of a request; <<>> when it has none
UserAgents == {<<>>, <<"c", "u", "r", "l">>}

\* a statement that names a column the table does not have is rejected
Threw == [threw |-> TRUE]

KeyExists(keys, id) == id \in DOMAIN keys /\ keys[id] # NoRow

\* SELECT ... FROM api_keys WHERE key = ? as db.get runs it: the first row
RowByKey(keys, k) ==
    LET ids == {i \in DOMAIN keys : keys[i] # NoRow /\ keys[i].key = k}
        first == CHOOSE i \in ids : \A j \in ids : i <= j
    IN  IF ids = {} THEN Null ELSE [id |-> first] @@ keys[first]

\* ApiKey.validate on a table api_keys with the given columns: its SELECT
\* names last_used
validate(cols, keys, k) ==
    IF "last_used" \notin cols THEN Threw
    ELSE LET apiKey == RowByKey(keys, k)
         IN  IF apiKey = Null \/ ~apiKey.is_active THEN Null ELSE apiKey

\* created_at > ?  (the window test of the COUNT query)
InWindowMutInclusive(created_at, since) == created_at = since \/ TextGreater(created_at, since)

InWindow(created_at, since) == TextGreater(created_at, since)

\* SELECT COUNT(*) FROM api_access_logs WHERE api_key_id = ? AND created_at > ?
CountRecentMutInFlight(logs, id, since) ==
    Cardinality({i \in 1..Len(logs) :
                    logs[i].api_key_id = <<id>> /\ TextGreater(logs[i].created_at, since)})
    + Cardinality({r \in DOMAIN reqs : reqs[r].pc = "logAccess" /\ reqs[r].keyInfo.id = id})

CountRecent(logs, id, since) ==
    Cardinality({i \in 1..Len(logs) :
                    logs[i].api_key_id = <<id>> /\ InWindow(logs[i].created_at, since)})

\* the result for an id that has no row
UnknownKeyResultMutAllowed(t) == [allowed |-> TRUE, remaining |-> 0, reset_at |-> t]

UnknownKeyResult(t) == [allowed |-> FALSE, remaining |-> 0, reset_at |-> t]

\* remaining: Math.max(0, remaining)
RemainingMutUnclamped(remaining) == remaining

Remaining(remaining) == Max(0, remaining)

\* allowed = remaining > 0
AllowedMutInclusive(remaining) == remaining >= 0

AllowedMutAlways(remaining) == TRUE

Allowed(remaining) == remaining > 0

\* ApiKey.checkRateLimit from the row its first query found: rateLimit is
\* that row's rate_limit, t the clock read when the query returned, logs the
\* table as the COUNT query finds it; `count` is the local of the same name
checkRateLimit(rateLimit, logs, id, t, z) ==
    LET oneMinuteAgo == t - Window
        count == CountRecent(logs, id, ToISOString(oneMinuteAgo))
        remaining == rateLimit - count
    IN  [count |-> count,
         result |-> [allowed |-> Allowed(remaining),
                     remaining |-> Remaining(remaining),
                     reset_at |-> NextMinute(t, z)]]

\* the keys stored in api_keys
StoredKeys(table) == {table[i].key : i \in {j \in KeyIds : table[j] # NoRow}}

\* the row ApiKey.create inserts; rl = 0 stands for a falsy
\* keyData.rate_limit (undefined or 0)
NewKey(key, rl) ==
    [key |-> key, is_active |-> TRUE,
     rate_limit |-> IF rl = 0 THEN DefaultRateLimit ELSE rl,
     last_used |-> NullText]

-----------------------------------------------------------------------------
(* Calls of the ApiKey methods that await more than once.  calls[c] is a   *)
(* call in flight and calls[c].pc the statement it awaits; req is the      *)
(* request whose middleware made the call, 0 for any other caller.         *)

NoCall == [op |-> "none"]
Idle == [pc |-> "idle"]

\* ApiKey.checkRateLimit(apiKeyId) is called
CheckRateLimitCall(req, id) ==
    [op |-> "checkRateLimit", pc |-> "select", req |-> req, id |-> id,
     rate_limit |-> 0, at |-> 0]

\* ApiKey.logAccess(logData) is called: transaction() is entered
LogAccessCall(req, id, user_agent, status_code) ==
    [op |-> "logAccess", pc |-> "begin", req |-> req, id |-> id,
     user_agent |-> user_agent, status_code |-> status_code,
     at |-> NullText, inserted |-> FALSE]

\* ApiKey.create(keyData) is called; keys is the table at that time
CreateCall(rl, keys) ==
    [op |-> "create", pc |-> "begin", req |-> 0, rate_limit |-> rl,
     attempts |-> 0, collided |-> 0, key |-> "", existing |-> FALSE,
     keys |-> keys, result |-> 0]

\* ApiKey.delete(id) is called
DeleteCall(id) ==
    [op |-> "delete", pc |-> "begin", req |-> 0, id |-> id,
     result |-> FALSE]

\* Node.update(id, updates) is called: transaction() is entered; result is
\* the row the call returns (NoRow for null and undefined)
NodeUpdateCall(id, updates) ==
    [op |-> "update", pc |-> "begin", req |-> 0, id |-> id,
     updates |-> updates, result |-> NoRow]

\* Admin.create(adminData) is called: transaction() is entered; result is
\* the id of the new row (0 for null)
AdminCreateCall(adminData) ==
    [op |-> "adminCreate", pc |-> "begin", req |-> 0,
     adminData |-> adminData, result |-> 0]

\* Admin.update(id, updates) is called: transaction() is entered; result is
\* the row the call returns (NoRow for null and undefined)
AdminUpdateCall(id, updates) ==
    [op |-> "adminUpdate", pc |-> "begin", req |-> 0, id |-> id,
     updates |-> updates, result |-> NoRow]

\* transaction(): BEGIN succeeded and the callback runs to its first await;
\* logAccess reads the clock there
callback(call, t) ==
    IF call.op = "logAccess"
    THEN [call EXCEPT !.pc = "insert", !.at = ToISOString(t)]
    ELSE IF call.op = "create" THEN [call EXCEPT !.pc = "select"]
    ELSE IF call.op = "update" THEN [call EXCEPT !.pc = "find"]
    ELSE IF call.op = "adminCreate" THEN [call EXCEPT !.pc = "existing"]
    ELSE IF call.op = "adminUpdate"
    THEN [call EXCEPT !.pc = "existingAdmin"]
    ELSE [call EXCEPT !.pc = "deleteLogs"]

\* a settled promise of a call: fulfilled, or rejected (threw)
Outcome(call, threw) == [op |-> call.op, threw |-> threw, call |-> call]

-----------------------------------------------------------------------------
(* Texts of query parameters: String.prototype.trim, parseInt and the      *)
(* count check of NodeController.getPeers                                  *)

\* WhiteSpace and LineTerminator of ECMAScript: the characters that
\* String.prototype.trim removes and parseInt skips
WhiteSpace ==
    {" ", "\t", "\n", "\r", "\f", "U+000B", "U+00A0", "U+FEFF", "U+1680",
     "U+2000", "U+2001", "U+2002", "U+2003", "U+2004", "U+2005", "U+2006",
     "U+2007", "U+2008", "U+2009", "U+200A", "U+2028", "U+2029", "U+202F",
     "U+205F", "U+3000"}

RECURSIVE TrimStart(_)
TrimStart(s) ==
    IF s # <<>> /\ Head(s) \in WhiteSpace THEN TrimStart(Tail(s)) ELSE s

RECURSIVE TrimEnd(_)
TrimEnd(s) ==
    IF s # <<>> /\ s[Len(s)] \in WhiteSpace
    THEN TrimEnd(SubSeq(s, 1, Len(s) - 1))
    ELSE s

\* String.prototype.trim
Trim(s) == TrimEnd(TrimStart(s))

\* req.query.count: absent (<<>>) or the text of the parameter
CountQueries ==
    {NullText, <<"0">>, <<"1">>, <<"2", "0">>, <<"2", "1">>, <<"-", "1">>,
     <<"a">>, <<"0", "x", "1", "5">>, <<"0", "X", "2">>, <<"\t", "2">>}

\* the digits of a radix
IsDigit(c, radix) ==
    \/ c \in {"0", "1", "2", "3", "4", "5", "6", "7", "8", "9"}
    \/ radix = 16 /\ c \in {"a", "b", "c", "d", "e", "f",
                            "A", "B", "C", "D", "E", "F"}

DigitValue(c) ==
    CASE c = "0" -> 0 [] c = "1" -> 1 [] c = "2" -> 2 [] c = "3" -> 3
      [] c = "4" -> 4 [] c = "5" -> 5 [] c = "6" -> 6 [] c = "7" -> 7
      [] c = "8" -> 8 [] c = "9" -> 9
      [] c \in {"a", "A"} -> 10 [] c \in {"b", "B"} -> 11
      [] c \in {"c", "C"} -> 12 [] c \in {"d", "D"} -> 13
      [] c \in {"e", "E"} -> 14 [] c \in {"f", "F"} -> 15

\* the leading digits of s read as a number of the radix after acc
RECURSIVE ParseDigits(_, _, _)
ParseDigits(s, radix, acc) ==
    IF s # <<>> /\ IsDigit(Head(s), radix)
    THEN ParseDigits(Tail(s), radix, acc * radix + DigitValue(Head(s)))
    ELSE acc

\* parseInt(text): <<n>>, or <<>> for NaN (no digit after the white space,
\* the sign and the prefix 0x or 0X, which selects radix 16)
ParseInt(text) ==
    LET t == TrimStart(text)
        negative == t # <<>> /\ Head(t) = "-"
        unsigned == IF t # <<>> /\ Head(t) \in {"-", "+"} THEN Tail(t) ELSE t
        prefixed == /\ Len(unsigned) >= 2
                    /\ unsigned[1] = "0"
                    /\ unsigned[2] \in {"x", "X"}
        radix == IF prefixed THEN 16 ELSE 10
        body == IF prefixed THEN SubSeq(unsigned, 3, Len(unsigned))
                ELSE unsigned
    IN  IF body = <<>> \/ ~IsDigit(Head(body), radix) THEN <<>>
        ELSE IF negative THEN << 0 - ParseDigits(body, radix, 0) >>
        ELSE << ParseDigits(body, radix, 0) >>

\* parsed || default: NaN and 0 are falsy
OrDefault(parsed, default) ==
    IF parsed = <<>> \/ parsed[1] = 0 THEN default ELSE parsed[1]

\* validateNumber(value, min, max): value is Number(value), <<>> for NaN;
\* min and max are <<>> when the caller passes none.  NaN fails, then a
\* value below a given min, then a value above a given max
validateNumber(value, min, max) ==
    IF value = <<>> THEN FALSE
    ELSE IF min # <<>> /\ value[1] < min[1] THEN FALSE
    ELSE IF max # <<>> /\ value[1] > max[1] THEN FALSE
    ELSE TRUE

\* NodeController.getPeers up to its await, on a request with the count
\* parameter `query` and no protocol or region parameter: the 400 response,
\* or the request suspended at Node.getPeers
getPeersHandler(query) ==
    LET count == OrDefault(ParseInt(query), 5)
        called == validateNumber(<<count>>, <<1>>, <<20>>)
    IN  [op |-> "getPeers", pc |-> IF called THEN "await" ELSE "done",
         query |-> query, status |-> IF called THEN 0 ELSE 400,
         called |-> called, count |-> count, peers |-> <<>>,
         total_available |-> 0, next_batch_available |-> FALSE]

-----------------------------------------------------------------------------
(* HTTP requests.  A request runs to completion between awaits; each       *)
(* segment of the middleware chain of routes/index.ts is part of the       *)
(* action that ends the await before it.  reqs[r].pc names the await the   *)
(* request is suspended at.  An operator below gives the request after a   *)
(* segment (q) and the call the segment has made (call), if any.           *)

Paths == {"/peers", "/other"}
AuthHeaders == {"none", "malformed", "invalid", "notBefore", "valid"}
ApiKeyInputs == {"", "k1", "k2"}
\* req.query.count of the GET /peers requests: absent, 2, and 21, which is
\* outside 1..20
RouteQueries == {NullText, <<"2">>, <<"2", "1">>}

\* authenticateJwt: the status it answers with, or 0 when it calls next().
\* "invalid" is a token for which jwt.verify throws JsonWebTokenError or
\* TokenExpiredError, "notBefore" one for which it throws anything else
\* (NotBeforeError)
authenticateJwtMutPassThrough(auth) == 0

authenticateJwt(auth) ==
    IF auth = "none" THEN 401
    ELSE IF auth = "malformed" THEN 401
    ELSE IF auth = "invalid" THEN 401
    ELSE IF auth = "notBefore" THEN 500
    ELSE 0

\* requireAdmin: req.user is set exactly when authenticateJwt called next()
requireAdmin(user) == IF ~user THEN 401 ELSE 0

\* router.use(adminRoutes); router.use(adminOnlyRoutes): both routers are
\* mounted without a path, so their middleware runs for every request that
\* is not /auth/register or /auth/login; no route of theirs matches the
\* paths modelled here.  The status answered, or 0 when the request falls
\* through to publicRoutes.
adminChain(auth) ==
    LET jwt == authenticateJwt(auth)
    IN  IF jwt # 0 THEN jwt ELSE requireAdmin(TRUE)

\* publicRoutes: GET /peers has optionalApiKeyAuth, everything else apiKeyAuth
middlewareFor(path) == IF path = "/peers" THEN "optionalApiKeyAuth" ELSE "apiKeyAuth"

\* what a middleware does when it has no key, no valid key or no quota left:
\* apiKeyAuth answers with the status, optionalApiKeyAuth calls next()
rejectMutOptionalRejects(mw, status) == status

reject(mw, status) == IF mw = "apiKeyAuth" THEN status ELSE 0

\* query is req.query.count
Request(path, auth, key, ua, query) ==
    [pc |-> "new", path |-> path, auth |-> auth, key |-> key, ua |-> ua,
     query |-> query, mw |-> middlewareFor(path), keyInfo |-> Null, rl |-> Null, count |-> 0,
     checkAt |-> 0, hooked |-> FALSE, ranGetPeers |-> FALSE, status |-> 0,
     body |-> "", sent |-> FALSE, log |-> "none"]

Segment(q, call) == [q |-> q, call |-> call]

\* the JSON body of a response: the peer list of a success, an error object
\* otherwise
Body(status) == IF status = 200 THEN "peers" ELSE "error"

\* res.status(status).json(...) on a response without the logging hook
Done(q, status) ==
    Segment([q EXCEPT !.pc = "done", !.status = status,
                      !.body = Body(status), !.sent = TRUE], Idle)

\* res.send as replaced by apiKeyAuth: ApiKey.logAccess is called and not
\* awaited, then originalSend sends the handler's status and body
hookedSend(r, q, status) ==
    Segment([q EXCEPT !.pc = "logAccess", !.status = status,
                      !.body = Body(status), !.sent = TRUE,
                      !.log = "pending"],
            LogAccessCall(r, q.keyInfo.id, q.ua, status))

\* the handler behind the middleware: NodeController.getPeers for /peers
\* (answering 400 for a count outside 1..20, suspended in Node.getPeers
\* otherwise), the application's 404 handler for any other path; res.send
\* runs the hook if the middleware installed it
toHandler(r, q) ==
    LET status == IF q.path = "/peers" THEN getPeersHandler(q.query).status
                  ELSE 404
    IN  IF status = 0 THEN Segment([q EXCEPT !.pc = "getPeers"], Idle)
        ELSE IF q.hooked THEN hookedSend(r, q, status)
        ELSE Done(q, status)

\* after a middleware decided `status` (0: next())
afterMiddleware(r, q, status) ==
    IF status # 0 THEN Done(q, status) ELSE toHandler(r, q)

\* the catch block of a middleware: apiKeyAuth answers 500,
\* optionalApiKeyAuth calls next()
caughtMutOptionalAnswers(r, q) == Done(q, 500)

caught(r, q) ==
    IF q.mw = "apiKeyAuth" THEN Done(q, 500) ELSE toHandler(r, q)

\* arrival: the router's chain up to the first await
dispatch(r, path, auth, key, ua, query) ==
    LET q == Request(path, auth, key, ua, query)
        admin == adminChain(auth)
    IN  IF admin # 0 THEN Done(q, admin).q
        ELSE IF key = "" THEN afterMiddleware(r, q, reject(q.mw, 401)).q
        ELSE [q EXCEPT !.pc = "validate"]

\* await ApiKey.validate(apiKey) has settled with info
afterValidate(r, q, info) ==
    IF info = Threw THEN caught(r, q)
    ELSE IF info = Null THEN afterMiddleware(r, q, reject(q.mw, 401))
    ELSE Segment([q EXCEPT !.pc = "checkRateLimit", !.keyInfo = info],
                 CheckRateLimitCall(r, info.id))

afterCheckMutLogDenied(r, q, o) ==
    LET q1 == [q EXCEPT !.rl = o.result, !.count = o.count, !.checkAt = o.at]
    IN  IF ~o.result.allowed THEN hookedSend(r, q1, 429)
        ELSE toHandler(r, [q1 EXCEPT !.hooked = TRUE])

\* await ApiKey.checkRateLimit(keyInfo.id) has returned o: the middleware
\* rejects, or installs the res.send hook and calls next()
afterCheck(r, q, o) ==
    LET q1 == [q EXCEPT !.rl = o.result, !.count = o.count, !.checkAt = o.at]
    IN  IF ~o.result.allowed THEN afterMiddleware(r, q1, reject(q.mw, 429))
        ELSE toHandler(r, [q1 EXCEPT !.hooked = TRUE])

afterLogMutError(q, o) ==
    Segment([q EXCEPT !.pc = "done",
                      !.log = IF o.threw THEN "failed" ELSE "committed",
                      !.status = IF o.threw THEN 500 ELSE @,
                      !.body = IF o.threw THEN Body(500) ELSE @], Idle)

\* the promise of ApiKey.logAccess settles; .catch logs "Failed to log API
\* access" when it is rejected
afterLog(q, o) ==
    Segment([q EXCEPT !.pc = "done",
                      !.log = IF o.threw THEN "failed" ELSE "committed"],
            Idle)

\* the request's continuation when its call settles with outcome o
resume(r, q, o) ==
    IF o.op = "checkRateLimit" THEN afterCheck(r, q, o) ELSE afterLog(q, o)

-----------------------------------------------------------------------------
(* The ApiKey methods, statement by statement on the one shared            *)
(* connection.  An action is a statement together with the code that runs  *)
(* when its await ends, up to the next await.  `last` is the outcome of    *)
(* the latest call made by a caller other than a request; it is forgotten  *)
(* when the clock or a table changes, except that a validate result        *)
(* outlives a delete (the caller still holds the row it validated).        *)

\* the request handlers and calls at rest, and the admins table as
\* startServer leaves it: the default account
InitExt ==
    /\ statusRes = NoCall
    /\ admins = [i \in AdminIds |-> IF i = 1 THEN Account(1) ELSE NoRow]
    /\ nextAdminId = 2
    /\ deleters = <<>>
    /\ conn = NoCall
    /\ calls = [c \in CallIds |-> Idle]

Init ==
    /\ now \in StartTimes
    /\ tz \in Zones
    /\ ticks = 0
    /\ columns \in Schemas
    /\ api_keys = [i \in KeyIds |-> NoRow]
    /\ nextKeyId = 1
    /\ api_access_logs = <<>>
    /\ last = NoCall
    /\ reqs = [r \in ReqIds |-> Idle]
    /\ nodes = [i \in NodeIds |-> NoRow]
    /\ peersCall = NoCall
    /\ nextNodeId = 1
    /\ node_status_history = <<>>
    /\ writers = [w \in WriterIds |-> Idle]
    /\ peersRes = NoCall
    /\ InitExt

\* the registry of a new database file, whose api_keys table has the
\* columns of INITIALIZE_SQL
InitRegistry == Init /\ columns = ApiKeysColumns

Tick ==
    /\ ticks < MaxTicks
    /\ \E d \in TickSteps : now' = now + d
    /\ ticks' = ticks + 1
    /\ last' = NoCall
    /\ UNCHANGED <<extVars, tz, api_keys, nextKeyId, api_access_logs, reqs, nodes, peersCall, nodeVars>>

\* the lowest slot without a call
Free(c) == calls[c] = Idle /\ \A d \in CallIds : d < c => calls[d] # Idle

InFlight(op) == Cardinality({c \in CallIds : calls[c].pc # "idle" /\ calls[c].op = op})

\* what `last` keeps while a call runs
forget(call) ==
    IF call.op = "delete" /\ last.op = "validate" THEN last ELSE NoCall

\* the promise of call c settles with outcome o: the middleware of its
\* request goes on, or the caller has the outcome
Settle(c, o) ==
    IF calls[c].req = 0
    THEN /\ last' = IF o.op = "delete" /\ last.op = "validate" THEN last ELSE o
         /\ calls' = [calls EXCEPT ![c] = Idle]
         /\ reqs' = reqs
    ELSE LET r == calls[c].req
             k == resume(r, reqs[r], o)
         IN  /\ reqs' = [reqs EXCEPT ![r] = k.q]
             /\ calls' = [calls EXCEPT ![c] = k.call]
             /\ last' = last

\* ---------------------------------------------------------------------
\* transaction(callback)
\* ---------------------------------------------------------------------

\* what ROLLBACK restores: every table of the database file as it was when
\* the open transaction began (the AUTOINCREMENT counters are rows of
\* sqlite_sequence)
Snapshot ==
    [op |-> "transaction", keys |-> api_keys, logs |-> api_access_logs,
     nextKeyId |-> nextKeyId, nodes |-> nodes, nextNodeId |-> nextNodeId,
     history |-> node_status_history, admins |-> admins,
     nextAdminId |-> nextAdminId]

\* await database.run("BEGIN TRANSACTION"): SQLite refuses a BEGIN while a
\* transaction is open on the connection, and the catch block is entered.
\* Every statement run on the connection until COMMIT or ROLLBACK, whoever
\* runs it, is part of the transaction.
TxBegin(c) ==
    /\ calls[c].pc = "begin"
    /\ IF conn = NoCall
       THEN /\ conn' = Snapshot
            /\ calls' = [calls EXCEPT ![c] = callback(calls[c], now)]
       ELSE /\ conn' = conn
            /\ calls' = [calls EXCEPT ![c].pc = "rollback"]
    /\ last' = forget(calls[c])
    /\ UNCHANGED <<otherVars, api_keys, nextKeyId, api_access_logs, reqs>>

\* await database.run("COMMIT"): ends whichever transaction is open and the
\* call returns; with none open SQLite reports an error and the catch block
\* is entered
TxCommit(c) ==
    /\ calls[c].pc = "commit"
    /\ IF conn # NoCall
       THEN /\ conn' = NoCall
            /\ Settle(c, Outcome(calls[c], FALSE))
       ELSE /\ conn' = conn
            /\ calls' = [calls EXCEPT ![c].pc = "rollback"]
            /\ last' = forget(calls[c])
            /\ reqs' = reqs
    /\ UNCHANGED <<otherVars, api_keys, nextKeyId, api_access_logs>>

\* catch: await database.run("ROLLBACK"); throw error.  ROLLBACK undoes
\* whichever transaction is open on the connection; with none open it
\* fails, and the call is rejected either way.
TxRollback(c) ==
    /\ calls[c].pc = "rollback"
    /\ IF conn # NoCall
       THEN /\ api_keys' = conn.keys
            /\ api_access_logs' = conn.logs
            /\ nextKeyId' = conn.nextKeyId
            /\ nodes' = conn.nodes
            /\ nextNodeId' = conn.nextNodeId
            /\ node_status_history' = conn.history
            /\ admins' = conn.admins
            /\ nextAdminId' = conn.nextAdminId
            /\ conn' = NoCall
       ELSE UNCHANGED <<api_keys, api_access_logs, nextKeyId, nodes,
                        nextNodeId, node_status_history, admins,
                        nextAdminId, conn>>
    /\ Settle(c, Outcome(calls[c], TRUE))
    /\ UNCHANGED clientVars

\* ---------------------------------------------------------------------
\* ApiKey.create
\* ---------------------------------------------------------------------

maxAttempts == 10

\* the values crypto.randomBytes can produce, so few that candidates collide
CandidateKeys == KeyStrings

\* ApiKey.create is called; rl = 0 stands for a falsy keyData.rate_limit, ids
\* are the ids the table can give to the new row
Create(ids) ==
    /\ nextKeyId + InFlight("create") \in ids
    /\ \E c \in CallIds, rl \in RateLimits \cup {0} :
          /\ Free(c)
          /\ calls' = [calls EXCEPT ![c] = CreateCall(rl, api_keys)]
    /\ last' = NoCall
    /\ UNCHANGED <<otherVars, api_keys, nextKeyId, api_access_logs, reqs, conn>>

\* what follows the SELECT of a turn of the do-while loop: another turn,
\* `return null` (the callback returns and COMMIT is awaited), or the INSERT
afterSelectMutInsertAnyway(existing, attempts) ==
    IF existing /\ attempts < maxAttempts THEN "select" ELSE "insert"

afterSelect(existing, attempts) ==
    IF existing /\ attempts < maxAttempts THEN "select"
    ELSE IF existing THEN "commit"
    ELSE "insert"

\* one turn of the do-while loop: await tx.get("SELECT id FROM api_keys
\* WHERE key = ?") for a key drawn from `candidates`
CreateSelect(c, candidates) ==
    /\ calls[c].pc = "select" /\ calls[c].op = "create"
    /\ \E key \in candidates :
          LET existing == RowByKey(api_keys, key) # Null
              attempts == calls[c].attempts + 1
          IN  calls' = [calls EXCEPT ![c] =
                          [@ EXCEPT !.key = key, !.existing = existing,
                                    !.attempts = attempts,
                                    !.collided = IF existing THEN @ + 1 ELSE @,
                                    !.pc = afterSelect(existing, attempts)]]
    /\ last' = NoCall
    /\ UNCHANGED <<otherVars, api_keys, nextKeyId, api_access_logs, reqs, conn>>

\* await tx.run("INSERT INTO api_keys ..."): part of the open transaction,
\* if any, and committed at once otherwise; result is the new id
CreateInsert(c) ==
    /\ calls[c].pc = "insert" /\ calls[c].op = "create"
    /\ nextKeyId \in KeyIds
    /\ api_keys' = [api_keys EXCEPT ![nextKeyId] =
                      NewKey(calls[c].key, calls[c].rate_limit)]
    /\ nextKeyId' = nextKeyId + 1
    /\ calls' = [calls EXCEPT ![c] =
                    [@ EXCEPT !.pc = "commit", !.result = nextKeyId]]
    /\ last' = NoCall
    /\ UNCHANGED <<otherVars, api_access_logs, reqs, conn>>

\* ---------------------------------------------------------------------
\* ApiKey.delete
\* ---------------------------------------------------------------------

\* ApiKey.delete is called for an id of `ids`, one deletion at a time
Delete(ids) ==
    /\ InFlight("delete") = 0
    /\ \E c \in CallIds, id \in ids :
          /\ Free(c)
          /\ calls' = [calls EXCEPT ![c] = DeleteCall(id)]
    /\ last' = IF last.op = "validate" THEN last ELSE NoCall
    /\ UNCHANGED <<otherVars, api_keys, nextKeyId, api_access_logs, reqs, conn>>

\* await tx.run("DELETE FROM api_access_logs WHERE api_key_id = ?")
DeleteLogs(c) ==
    /\ calls[c].pc = "deleteLogs" /\ calls[c].op = "delete"
    /\ api_access_logs' = SelectSeq(api_access_logs,
                                    LAMBDA e : e.api_key_id # <<calls[c].id>>)
    /\ calls' = [calls EXCEPT ![c].pc = "deleteKey"]
    /\ last' = forget(calls[c])
    /\ UNCHANGED <<otherVars, api_keys, nextKeyId, reqs, conn>>

\* FOREIGN KEY(api_key_id) REFERENCES api_keys(id) ON DELETE SET NULL: the
\* entries that name a deleted key are kept with api_key_id NULL
SetNull(logs, id) ==
    [i \in 1 .. Len(logs) |->
        IF logs[i].api_key_id = <<id>>
        THEN [logs[i] EXCEPT !.api_key_id = NullText] ELSE logs[i]]

\* await tx.run("DELETE FROM api_keys WHERE id = ?"); result is changes > 0
DeleteKey(c) ==
    /\ calls[c].pc = "deleteKey" /\ calls[c].op = "delete"
    /\ api_keys' = [api_keys EXCEPT ![calls[c].id] = NoRow]
    /\ api_access_logs' = SetNull(api_access_logs, calls[c].id)
    /\ calls' = [calls EXCEPT ![c] =
                    [@ EXCEPT !.pc = "commit",
                              !.result = KeyExists(api_keys, calls[c].id)]]
    /\ last' = forget(calls[c])
    /\ UNCHANGED <<otherVars, nextKeyId, reqs, conn>>

\* ---------------------------------------------------------------------
\* ApiKey.updateRateLimit, ApiKey.updateStatus, ApiKey.validate: one
\* statement each
\* ---------------------------------------------------------------------

\* ApiKey.updateRateLimit
UpdateRateLimit ==
    /\ \E id \in KeyIds, rl \in RateLimits :
          /\ KeyExists(api_keys, id)
          /\ api_keys' = [api_keys EXCEPT ![id].rate_limit = rl]
    /\ last' = NoCall
    /\ UNCHANGED <<otherVars, nextKeyId, api_access_logs, reqs, conn, calls>>

\* ApiKey.updateStatus
UpdateStatus ==
    /\ \E id \in KeyIds, is_active \in BOOLEAN :
          /\ KeyExists(api_keys, id)
          /\ api_keys' = [api_keys EXCEPT ![id].is_active = is_active]
    /\ last' = NoCall
    /\ UNCHANGED <<otherVars, nextKeyId, api_access_logs, reqs, conn, calls>>

\* ApiKey.validate
Validate ==
    /\ \E k \in KeyStrings :
          last' = [op |-> "validate", key |-> k,
                   keyInfo |-> validate(columns, api_keys, k)]
    /\ UNCHANGED <<otherVars, api_keys, nextKeyId, api_access_logs, reqs, conn, calls>>

\* ---------------------------------------------------------------------
\* ApiKey.logAccess
\* ---------------------------------------------------------------------

\* ApiKey.logAccess is called for a credential id the caller resolved
LogAccess ==
    /\ Len(api_access_logs) + InFlight("logAccess") < MaxLogs
    /\ \E c \in CallIds, id \in KeyIds, ua \in UserAgents, sc \in StatusCodes :
          /\ Free(c)
          /\ calls' = [calls EXCEPT ![c] = LogAccessCall(0, id, ua, sc)]
    /\ last' = NoCall
    /\ UNCHANGED <<otherVars, api_keys, nextKeyId, api_access_logs, reqs, conn>>

\* INSERT INTO api_access_logs succeeds: user_agent is NOT NULL (the value
\* stored is `logData.user_agent || null`) and api_key_id references a row
\* of api_keys (PRAGMA foreign_keys = ON)
insertableMutAlways(keys, id, user_agent) == TRUE

insertable(keys, id, user_agent) ==
    TextOrNull(user_agent) # NullText /\ KeyExists(keys, id)

\* await tx.run("INSERT INTO api_access_logs ..."): part of the open
\* transaction, if any, and committed at once otherwise; created_at is the
\* clock read when the callback started
LogInsert(c) ==
    /\ calls[c].pc = "insert" /\ calls[c].op = "logAccess"
    /\ IF insertable(api_keys, calls[c].id, calls[c].user_agent)
       THEN /\ api_access_logs' = Append(api_access_logs,
                  [api_key_id |-> <<calls[c].id>>,
                   status_code |-> calls[c].status_code,
                   created_at |-> calls[c].at])
            /\ calls' = [calls EXCEPT ![c] =
                            [@ EXCEPT !.pc = "update", !.inserted = TRUE]]
       ELSE /\ api_access_logs' = api_access_logs
            /\ calls' = [calls EXCEPT ![c].pc = "rollback"]
    /\ last' = NoCall
    /\ UNCHANGED <<otherVars, api_keys, nextKeyId, reqs, conn>>

\* await tx.run("UPDATE api_keys SET last_used = ? WHERE id = ?"): rejected
\* when the table has no column last_used
LogUpdate(c) ==
    /\ calls[c].pc = "update" /\ calls[c].op = "logAccess"
    /\ IF "last_used" \in columns
       THEN /\ api_keys' = IF KeyExists(api_keys, calls[c].id)
                           THEN [api_keys EXCEPT
                                   ![calls[c].id].last_used = calls[c].at]
                           ELSE api_keys
            /\ calls' = [calls EXCEPT ![c].pc = "commit"]
       ELSE /\ api_keys' = api_keys
            /\ calls' = [calls EXCEPT ![c].pc = "rollback"]
    /\ last' = NoCall
    /\ UNCHANGED <<otherVars, nextKeyId, api_access_logs, reqs, conn>>

\* ---------------------------------------------------------------------
\* ApiKey.checkRateLimit
\* ---------------------------------------------------------------------

\* ApiKey.checkRateLimit is called
CheckRateLimit ==
    /\ \E c \in CallIds, id \in KeyIds :
          /\ Free(c)
          /\ calls' = [calls EXCEPT ![c] = CheckRateLimitCall(0, id)]
    /\ last' = last
    /\ UNCHANGED <<otherVars, api_keys, nextKeyId, api_access_logs, reqs, conn>>

\* what checkRateLimit returns, with what it read: found tells whether the
\* first query found a row, logs is the table the COUNT query ran on
CheckResult(call, found, at, logs, count, result) ==
    [op |-> "checkRateLimit", threw |-> FALSE, call |-> call, id |-> call.id,
     found |-> found, at |-> at, rate_limit |-> call.rate_limit,
     logs |-> logs, count |-> count, result |-> result,
     validated |-> (/\ last.op = "validate"
                    /\ last.keyInfo # Threw
                    /\ last.keyInfo # Null
                    /\ last.keyInfo.id = call.id)]

\* await db.get("SELECT rate_limit FROM api_keys WHERE id = ?"): without a
\* row the call returns; with one the clock is read and the COUNT query is
\* awaited
CheckSelect(c) ==
    /\ calls[c].pc = "select" /\ calls[c].op = "checkRateLimit"
    /\ IF ~KeyExists(api_keys, calls[c].id)
       THEN Settle(c, CheckResult(calls[c], FALSE, now, api_access_logs, 0,
                              UnknownKeyResult(now)))
       ELSE /\ calls' = [calls EXCEPT ![c] =
                            [@ EXCEPT !.pc = "count", !.at = now,
                                      !.rate_limit = api_keys[calls[c].id].rate_limit]]
            /\ last' = NoCall
            /\ reqs' = reqs
    /\ UNCHANGED <<otherVars, api_keys, nextKeyId, api_access_logs, conn>>

\* await db.get("SELECT COUNT(*) ..."): the call returns
CheckCount(c) ==
    /\ calls[c].pc = "count" /\ calls[c].op = "checkRateLimit"
    /\ LET call == calls[c]
           o == checkRateLimit(call.rate_limit, api_access_logs, call.id,
                               call.at, tz)
       IN  Settle(c, CheckResult(call, TRUE, call.at, api_access_logs,
                             o.count, o.result))
    /\ UNCHANGED <<otherVars, api_keys, nextKeyId, api_access_logs, conn>>

\* no call is in flight
Resting == \A c \in CallIds : calls[c] = Idle

\* a table that holds one credential at most
OneKey == {1}

\* the calls made by callers other than a request, one at a time, on a
\* table of one credential
Next ==
    \/ Tick
    \/ Resting /\ Create(OneKey)
    \/ Resting /\ Delete(KeyIds)
    \/ UpdateRateLimit
    \/ UpdateStatus
    \/ Resting /\ LogAccess
    \/ Validate
    \/ Resting /\ CheckRateLimit
    \/ \E c \in CallIds : TxBegin(c)
    \/ \E c \in CallIds : TxCommit(c)
    \/ \E c \in CallIds : TxRollback(c)
    \/ \E c \in CallIds : CreateSelect(c, CandidateKeys)
    \/ \E c \in CallIds : CreateInsert(c)
    \/ \E c \in CallIds : DeleteLogs(c)
    \/ \E c \in CallIds : DeleteKey(c)
    \/ \E c \in CallIds : LogInsert(c)
    \/ \E c \in CallIds : LogUpdate(c)
    \/ \E c \in CallIds : CheckSelect(c)
    \/ \E c \in CallIds : CheckCount(c)

Spec == Init /\ [][Next]_vars

\* a registry in which an administrator has created both credentials
InitLimiter ==
    /\ now \in StartTimes
    /\ tz \in Zones
    /\ ticks = 0
    /\ columns \in Schemas
    /\ \E rl1 \in RateLimits, rl2 \in RateLimits :
          api_keys = [i \in KeyIds |->
                        IF i = 1 THEN NewKey("k1", rl1) ELSE NewKey("k2", rl2)]
    /\ nextKeyId = 3
    /\ api_access_logs = <<>>
    /\ last = NoCall
    /\ reqs = [r \in ReqIds |-> Idle]
    /\ nodes = [i \in NodeIds |-> NoRow]
    /\ peersCall = NoCall
    /\ nextNodeId = 1
    /\ node_status_history = <<>>
    /\ writers = [w \in WriterIds |-> Idle]
    /\ peersRes = NoCall
    /\ InitExt

\* the rate limiter on a table of two credentials: the calls that write
\* what checkRateLimit reads, one at a time
NextLimiter ==
    \/ Resting /\ Tick
    \/ UpdateRateLimit
    \/ Resting /\ LogAccess
    \/ Resting /\ CheckRateLimit
    \/ \E c \in CallIds : TxBegin(c)
    \/ \E c \in CallIds : TxCommit(c)
    \/ \E c \in CallIds : TxRollback(c)
    \/ \E c \in CallIds : LogInsert(c)
    \/ \E c \in CallIds : LogUpdate(c)
    \/ \E c \in CallIds : CheckSelect(c)
    \/ \E c \in CallIds : CheckCount(c)

SpecLimiter == InitLimiter /\ [][NextLimiter]_vars

-----------------------------------------------------------------------------
(* Properties of checkRateLimit, stated on the call that has just returned *)
(* and on what it read: the row of its first query, the clock it read when *)
(* that query returned, and the table its COUNT query ran on.              *)

\* the instant a stored ISO text denotes, in ms
TimeOf(c) == (((c[1] * 24 + c[2]) * 60 + c[3]) * 60 + c[4]) * 1000 + c[5]

LastIsCheck == last.op = "checkRateLimit"
LastKeyExists == LastIsCheck /\ last.found
LastRateLimit == last.rate_limit

\* entries of the credential stamped later than 60 s before the call
LastCountStrict ==
    Cardinality({i \in 1..Len(last.logs) :
        /\ last.logs[i].api_key_id = <<last.id>>
        /\ last.at - 60000 < TimeOf(last.logs[i].created_at)})

\* entries of the credential stamped no earlier than 60 s before the call
LastCountInclusive ==
    Cardinality({i \in 1..Len(last.logs) :
        /\ last.logs[i].api_key_id = <<last.id>>
        /\ last.at - 60000 <= TimeOf(last.logs[i].created_at)})

\* C1 as stated: with exactly rate_limit entries in the window the call is
\* allowed with remaining = 0; with rate_limit + 1 entries it is denied.
C1_LastOneAllowedAtLimit ==
    LastKeyExists =>
        /\ LastCountStrict = LastRateLimit =>
                last.result.allowed /\ last.result.remaining = 0
        /\ LastCountStrict = LastRateLimit + 1 => ~last.result.allowed

\* C1 amended: with exactly rate_limit entries in the window the call is denied
\* with remaining = 0; the last admitted call is the one that finds
\* rate_limit - 1 entries (allowed, remaining = 1); with rate_limit + 1 entries
\* the call is denied.
C1_DeniedAtLimit ==
    LastKeyExists =>
        /\ LastCountStrict = LastRateLimit =>
                ~last.result.allowed /\ last.result.remaining = 0
        /\ LastCountStrict = LastRateLimit - 1 =>
                last.result.allowed /\ last.result.remaining = 1
        /\ LastCountStrict = LastRateLimit + 1 =>
                ~last.result.allowed /\ last.result.remaining = 0

C1_Witness ==
    /\ LastKeyExists
    /\ LastCountStrict = LastRateLimit
    /\ last.at > 0

\* C2: remaining = max(0, rate_limit - count), allowed exactly when the returned
\* remaining is positive, and remaining is never negative.
C2_RemainingAndAllowed ==
    LastKeyExists =>
        /\ last.result.remaining =
              (IF LastRateLimit - last.count > 0 THEN LastRateLimit - last.count ELSE 0)
        /\ last.result.allowed = (last.result.remaining > 0)
        /\ last.result.remaining >= 0

C2_Witness == LastKeyExists /\ last.count > LastRateLimit

\* C3 as stated: an entry counts iff now - 60 s <= t (inclusive lower bound).
C3_WindowInclusive == LastKeyExists => last.count = LastCountInclusive

\* C3 amended: an entry counts iff now - 60 s < t (exclusive lower bound): an
\* entry stamped exactly now - 60 s does not count, nor does one stamped 61 s
\* before now; one stamped 59.999 s before now does.
C3_WindowExclusive == LastKeyExists => last.count = LastCountStrict

\* an entry of the credential stamped exactly 60 s before the call and an
\* entry of the other credential inside the window, neither counted
C3_Witness ==
    /\ LastKeyExists
    /\ \E i \in 1..Len(last.logs) :
          /\ last.logs[i].api_key_id = <<last.id>>
          /\ TimeOf(last.logs[i].created_at) = last.at - 60000
    /\ \E i \in 1..Len(last.logs) :
          /\ last.logs[i].api_key_id # <<last.id>>
          /\ TimeOf(last.logs[i].created_at) > last.at - 60000
    /\ last.count = 0

\* C7: reset_at is the start of the next minute: a whole-minute instant later
\* than now and at most 60 s later, a function of now alone.
C7_ResetAtNextMinute ==
    LastKeyExists =>
        /\ last.result.reset_at % 60000 = 0
        /\ last.at < last.result.reset_at
        /\ last.result.reset_at <= last.at + 60000
        /\ last.result.reset_at = ((last.at \div 60000) + 1) * 60000

\* a call in a zone without daylight saving time, in the last millisecond
\* of a minute, with entries in the window
C7_ConstantZoneReached ==
    /\ LastKeyExists
    /\ last.at % 60000 = 59999
    /\ last.count > 0
    /\ tz = Kolkata

\* a call in the repeated hour: reset_at is in the past
C7_RepeatedHourReached ==
    /\ LastKeyExists
    /\ tz = FallBack
    /\ last.at >= tz.at
    /\ last.result.reset_at = ((last.at \div 60000) + 1) * 60000 - 3600000

\* a call in the last minute before the clocks go back: reset_at is the
\* start of the next minute and one hour
C7_LastMinuteReached ==
    /\ LastKeyExists
    /\ tz = FallBack
    /\ last.at < tz.at
    /\ last.result.reset_at = ((last.at \div 60000) + 1) * 60000 + 3600000

-----------------------------------------------------------------------------
(* checkRateLimit for an id without a row: a credential is validated,      *)
(* deleted and checked                                                     *)

\* a registry in which an administrator has created one credential
InitHttp ==
    /\ now \in StartTimes
    /\ tz \in Zones
    /\ ticks = 0
    /\ columns \in Schemas
    /\ \E rl \in RateLimits :
          api_keys = [i \in KeyIds |->
                        IF i = 1 THEN NewKey("k1", rl) ELSE NoRow]
    /\ nextKeyId = 2
    /\ api_access_logs = <<>>
    /\ last = NoCall
    /\ reqs = [r \in ReqIds |-> Idle]
    /\ nodes = [i \in NodeIds |-> NoRow]
    /\ peersCall = NoCall
    /\ nextNodeId = 1
    /\ node_status_history = <<>>
    /\ writers = [w \in WriterIds |-> Idle]
    /\ peersRes = NoCall
    /\ InitExt

NextUnknown ==
    \/ Resting /\ Tick
    \/ Validate
    \/ Resting /\ Delete(KeyIds)
    \/ Resting /\ LogAccess
    \/ Resting /\ CheckRateLimit
    \/ \E c \in CallIds : TxBegin(c)
    \/ \E c \in CallIds : TxCommit(c)
    \/ \E c \in CallIds : TxRollback(c)
    \/ \E c \in CallIds : DeleteLogs(c)
    \/ \E c \in CallIds : DeleteKey(c)
    \/ \E c \in CallIds : LogInsert(c)
    \/ \E c \in CallIds : LogUpdate(c)
    \/ \E c \in CallIds : CheckSelect(c)
    \/ \E c \in CallIds : CheckCount(c)

SpecUnknown == InitHttp /\ [][NextUnknown]_vars

\* C6: for an id without a row the call returns allowed = false, remaining = 0,
\* reset_at = the current time, normally, and leaves both tables unchanged.
C6_UnknownKey ==
    /\ []((LastIsCheck /\ ~last.found) =>
            /\ last.result = [allowed |-> FALSE, remaining |-> 0,
                              reset_at |-> last.at]
            /\ last.at = now
            /\ ~last.threw)
    /\ [][\A c \in CallIds :
            (CheckSelect(c) /\ ~KeyExists(api_keys, calls[c].id)) =>
                /\ api_keys' = api_keys
                /\ api_access_logs' = api_access_logs
                /\ nextKeyId' = nextKeyId
                /\ calls'[c] = Idle
                /\ last'.op = "checkRateLimit"]_vars

\* the id was validated and then deleted before the call
C6_Witness ==
    /\ LastIsCheck
    /\ ~last.found
    /\ last.validated
    /\ last.at > 0

-----------------------------------------------------------------------------
(* The middleware chain, await by await *)

\* connections are taken in order: slot r is used once the slots below it are
Dispatch(r, paths, auths, keys, uas, queries) ==
    /\ reqs[r].pc = "idle"
    /\ \A r0 \in ReqIds : r0 < r => reqs[r0].pc # "idle"
    /\ \E path \in paths, auth \in auths, key \in keys, ua \in uas,
          query \in queries :
          reqs' = [reqs EXCEPT ![r] =
                      dispatch(r, path, auth, key, ua, query)]
    /\ UNCHANGED <<extVars, now, tz, ticks, api_keys, nextKeyId, api_access_logs, last, nodes, peersCall, nodeVars>>

\* await ApiKey.validate(apiKey) settles: the middleware rejects, goes to
\* its catch block, or calls ApiKey.checkRateLimit
ValidateReturns(r) ==
    /\ reqs[r].pc = "validate"
    /\ \E c \in CallIds :
          /\ Free(c)
          /\ LET k == afterValidate(r, reqs[r],
                                    validate(columns, api_keys, reqs[r].key))
             IN  /\ reqs' = [reqs EXCEPT ![r] = k.q]
                 /\ calls' = [calls EXCEPT ![c] = k.call]
    /\ UNCHANGED <<otherVars, api_keys, nextKeyId, api_access_logs, last, conn>>

\* await Node.getPeers(...) returns and successResponse sends the list; a
\* request whose count NodeController.getPeers refused never waits here
GetPeersReturns(r) ==
    /\ reqs[r].pc = "getPeers"
    /\ \E c \in CallIds :
          /\ Free(c)
          /\ LET q == [reqs[r] EXCEPT !.ranGetPeers = TRUE]
                 k == IF q.hooked THEN hookedSend(r, q, 200) ELSE Done(q, 200)
             IN  /\ reqs' = [reqs EXCEPT ![r] = k.q]
                 /\ calls' = [calls EXCEPT ![c] = k.call]
    /\ UNCHANGED <<otherVars, api_keys, nextKeyId, api_access_logs, last, conn>>

\* the response was delivered; the slot takes the next request
Recycle(r) ==
    /\ reqs[r].pc = "done"
    /\ reqs' = [reqs EXCEPT ![r] = Idle]
    /\ UNCHANGED <<extVars, now, tz, ticks, api_keys, nextKeyId, api_access_logs, last, nodes, peersCall, nodeVars>>

-----------------------------------------------------------------------------
(* One request at a time through apiKeyAuth: a request arrives only when   *)
(* every earlier one has been answered and its logAccess has settled.      *)

Quiet == \A r \in ReqIds : reqs[r].pc \in {"idle", "done"}

NextSeq ==
    \/ Tick
    \/ \E r \in ReqIds : Quiet /\ Dispatch(r, {"/other"}, {"valid"}, {"k1"}, UserAgents, {NullText})
    \/ \E r \in ReqIds : ValidateReturns(r)
    \/ \E c \in CallIds : CheckSelect(c)
    \/ \E c \in CallIds : CheckCount(c)
    \/ \E c \in CallIds : TxBegin(c)
    \/ \E c \in CallIds : LogInsert(c)
    \/ \E c \in CallIds : LogUpdate(c)
    \/ \E c \in CallIds : TxCommit(c)
    \/ \E c \in CallIds : TxRollback(c)

SpecSeq == InitHttp /\ [][NextSeq]_vars

-----------------------------------------------------------------------------
(* Concurrent requests of one credential through apiKeyAuth *)

NextRace ==
    \/ Tick
    \/ \E r \in RaceIds : Dispatch(r, {"/other"}, {"valid"}, {"k1"}, UserAgents, {NullText})
    \/ \E r \in RaceIds : ValidateReturns(r)
    \/ \E c \in CallIds : CheckSelect(c)
    \/ \E c \in CallIds : CheckCount(c)
    \/ \E c \in CallIds : TxBegin(c)
    \/ \E c \in CallIds : LogInsert(c)
    \/ \E c \in CallIds : LogUpdate(c)
    \/ \E c \in CallIds : TxCommit(c)
    \/ \E c \in CallIds : TxRollback(c)

SpecRace == InitHttp /\ [][NextRace]_vars

-----------------------------------------------------------------------------
(* Any request, one connection: the routing of routes/index.ts, while an   *)
(* administrator deletes the credential                                    *)

NextRoute ==
    \/ Delete(OneKey)
    \/ Dispatch(1, {"/peers"}, AuthHeaders, ApiKeyInputs, UserAgents,
                RouteQueries)
    \/ Dispatch(1, Paths \ {"/peers"}, AuthHeaders, ApiKeyInputs, UserAgents,
                {NullText})
    \/ ValidateReturns(1)
    \/ GetPeersReturns(1)
    \/ Recycle(1)
    \/ \E c \in CallIds : CheckSelect(c)
    \/ \E c \in CallIds : CheckCount(c)
    \/ \E c \in CallIds : TxBegin(c)
    \/ \E c \in CallIds : DeleteLogs(c)
    \/ \E c \in CallIds : DeleteKey(c)
    \/ \E c \in CallIds : LogInsert(c)
    \/ \E c \in CallIds : LogUpdate(c)
    \/ \E c \in CallIds : TxCommit(c)
    \/ \E c \in CallIds : TxRollback(c)

SpecRoute == InitHttp /\ [][NextRoute]_vars

-----------------------------------------------------------------------------
(* Properties of the request pipeline *)

\* entries of credential `id` stamped later than 60 s before instant t
LoggedInWindow(logs, id, t) ==
    Cardinality({i \in 1..Len(logs) :
        logs[i].api_key_id = <<id>> /\ t - Window < TimeOf(logs[i].created_at)})

Checked(r) == reqs[r].pc # "idle" /\ reqs[r].rl # Null
Admitted(r) == Checked(r) /\ reqs[r].mw = "apiKeyAuth" /\ reqs[r].rl.allowed
Denied(r) == Checked(r) /\ ~reqs[r].rl.allowed

\* the admitted requests so far had their entries written, the latest one
\* possibly still being written
EntriesWritten == \A r \in ReqIds : Admitted(r) => reqs[r].log # "failed"

\* requests admitted by apiKeyAuth at an instant in [t, t + 60 s)
AdmittedFrom(t) ==
    {r \in ReqIds : Admitted(r) /\ t <= reqs[r].checkAt /\ reqs[r].checkAt < t + Window}

\* requests admitted by apiKeyAuth at an instant in [t, t + 60 s]
AdmittedWithin(t) ==
    {r \in ReqIds : Admitted(r) /\ t <= reqs[r].checkAt /\ reqs[r].checkAt <= t + Window}

\* C4 as stated: with requests handled one at a time, each admitted request's
\* entry written before the next check, and rate_limit fixed, every
\* 60-second interval holds at most rate_limit admissions of the credential
\* (it is enough to look at the intervals that start at one).
C4_FlatCapEveryInterval ==
    \A r \in ReqIds :
        (Admitted(r) /\ EntriesWritten) =>
            Cardinality(AdmittedWithin(reqs[r].checkAt)) <= api_keys[1].rate_limit

\* C4 amended: under the same conditions every interval [t, t + 60 s) that
\* excludes its end holds at most rate_limit admissions of the credential; a
\* request checked exactly 60 s after an admitted one was logged is admitted
\* again.
C4_FlatCapSequential ==
    \A r \in ReqIds :
        (Admitted(r) /\ EntriesWritten) =>
            Cardinality(AdmittedFrom(reqs[r].checkAt)) <= api_keys[1].rate_limit

\* the cap was reached, a request was denied, and one was admitted again once
\* the window had passed
C4_Witness ==
    \E a, b, c \in ReqIds :
        /\ EntriesWritten
        /\ Admitted(a) /\ Admitted(c)
        /\ reqs[a].log = "committed"
        /\ Denied(b) /\ reqs[b].pc = "done" /\ reqs[b].status = 429
        /\ reqs[a].checkAt <= reqs[b].checkAt
        /\ reqs[b].checkAt < reqs[c].checkAt
        /\ Cardinality(AdmittedFrom(reqs[a].checkAt)) = api_keys[1].rate_limit

\* the checkRateLimit call of request r that awaits its COUNT query
Counting(r, c) ==
    /\ calls[c].pc = "count"
    /\ calls[c].op = "checkRateLimit"
    /\ calls[c].req = r

\* C5: the decision of a check reads the log alone: a request is admitted
\* exactly when fewer than rate_limit entries are logged in its window when
\* its COUNT query runs, however many admitted requests are not logged yet ...
C5_CheckIgnoresUnlogged ==
    [][\A r \in RaceIds, c \in CallIds :
          (Counting(r, c) /\ reqs'[r].pc # "checkRateLimit") =>
              (reqs'[r].hooked <=>
                  LoggedInWindow(api_access_logs, calls[c].id, calls[c].at)
                      < calls[c].rate_limit)]_vars

\* ... so concurrent requests that all check before any is logged are all
\* admitted: more than rate_limit admissions at instants less than 60 s apart,
\* the later one checked while the earlier one was not logged yet.
C5_Witness ==
    /\ Cardinality({r \in RaceIds : Admitted(r)}) > api_keys[1].rate_limit
    /\ api_access_logs = <<>>
    /\ \A r1, r2 \in RaceIds :
          (Admitted(r1) /\ Admitted(r2)) => reqs[r1].checkAt - reqs[r2].checkAt < Window
    /\ \E r1, r2 \in RaceIds :
          /\ Admitted(r1) /\ Admitted(r2)
          /\ reqs[r1].checkAt < reqs[r2].checkAt
          /\ reqs[r1].pc = "logAccess"

\* C8 as stated: a GET /peers request with a valid credential that the limiter
\* denies is answered 429 and never reaches NodeController.getPeers.
C8_DeniedPeersGets429 ==
    \A r \in ReqIds :
        (/\ Denied(r)
         /\ reqs[r].path = "/peers"
         /\ KeyExists(api_keys, reqs[r].keyInfo.id)) =>
            /\ reqs[r].pc # "getPeers"
            /\ ~reqs[r].ranGetPeers
            /\ reqs[r].pc = "done" /\ reqs[r].status = 429

\* the count NodeController.getPeers reads from the request: the parsed
\* parameter, 5 when it is absent, not a number or 0
RequestedCount(q) == OrDefault(ParseInt(q.query), 5)

\* C8 amended: a denied request is answered 429 without reaching a handler
\* only behind apiKeyAuth (every public route but GET /peers); behind
\* optionalApiKeyAuth (GET /peers) it is not rejected and never answered
\* 429: it goes on to NodeController.getPeers without an access-log hook and
\* is answered as a request without a credential is, 200 after Node.getPeers
\* ran when the requested count is within 1..20, 400 without a run of
\* Node.getPeers when it is not.
C8_DeniedByMiddleware ==
    \A r \in ReqIds :
        Denied(r) =>
            /\ ~reqs[r].hooked
            /\ reqs[r].mw = "apiKeyAuth" =>
                  /\ reqs[r].path # "/peers"
                  /\ reqs[r].pc = "done" /\ reqs[r].status = 429
                  /\ ~reqs[r].ranGetPeers
            /\ reqs[r].mw = "optionalApiKeyAuth" =>
                  /\ reqs[r].path = "/peers"
                  /\ reqs[r].pc \in {"getPeers", "done"}
                  /\ reqs[r].status # 429
                  /\ reqs[r].pc = "getPeers" =>
                        RequestedCount(reqs[r]) \in 1..20
                  /\ reqs[r].pc = "done" =>
                        IF RequestedCount(reqs[r]) \in 1..20
                        THEN reqs[r].status = 200 /\ reqs[r].ranGetPeers
                        ELSE reqs[r].status = 400 /\ ~reqs[r].ranGetPeers

C8_Witness ==
    \E r \in ReqIds :
        /\ Denied(r)
        /\ reqs[r].path = "/peers"
        /\ KeyExists(api_keys, reqs[r].keyInfo.id)
        /\ reqs[r].count >= reqs[r].keyInfo.rate_limit
        /\ reqs[r].pc = "done"
        /\ reqs[r].status = 200
        /\ reqs[r].ranGetPeers

\* a denied GET /peers request whose count NodeController.getPeers refused
C8_OutOfRangeReached ==
    \E r \in ReqIds :
        /\ Denied(r)
        /\ reqs[r].path = "/peers"
        /\ RequestedCount(reqs[r]) = 21
        /\ reqs[r].pc = "done"
        /\ reqs[r].status = 400

\* C9 as stated: a GET /peers request without an Authorization header, with or
\* without an API key, reaches NodeController.getPeers and is answered with
\* the peer list, not 401.
C9_PeersIsPublic ==
    \A r \in ReqIds :
        (/\ reqs[r].pc = "done"
         /\ reqs[r].path = "/peers"
         /\ reqs[r].auth = "none") =>
            /\ reqs[r].status = 200
            /\ reqs[r].ranGetPeers

\* ---------------------------------------------------------------------
\* Peer discovery: the nodes table and Node.getPeers
\* ---------------------------------------------------------------------

\* Text is a tuple of characters; the empty tuple in a column is SQL NULL
\* (Node.create and Node.update store `region || null`, so '' is never a
\* stored region).  A numeric column holds <<>> for NULL or <<n>>.  A
\* character that has no escape in a string of this module is written as
\* its code point: "U+00A0" is the one character NO-BREAK SPACE.
US == <<"U", "S">>
EU == <<"E", "U">>
PaddedUS == <<" ", "U", "S", " ">>
TabUS == <<"\t", "U", "S">>
USNewline == <<"U", "S", "\n">>
NbspUS == <<"U+00A0", "U", "S">>
Blank == <<" ">>
Tab == <<"\t">>
Protocols == {"http", "ws"}
Regions == {NullText, US, EU}
Statuses == {"Online", "Offline"}
ResponseTimes == {<<>>, <<10>>, <<20>>}
\* query parameters: 0 and "" and <<>> stand for an absent parameter, which
\* the falsy tests of getPeers treat like 0 and ''
CountParams == {0, 1, 2}
ProtocolParams == {"", "http"}
RegionParams == {NullText, US, PaddedUS, TabUS, USNewline, NbspUS, Blank, Tab}

Min(a, b) == IF a < b THEN a ELSE b

\* const count = Math.min(params.count || 5, 20)
PeerCount(count) == Min(IF count = 0 THEN 5 ELSE count, 20)

RegionFilterAppliesMutNever(region) == FALSE

\* if (params.region && params.region.trim() !== "")
RegionFilterApplies(region) == region # <<>> /\ Trim(region) # <<>>

\* the WHERE clause built by getPeers, evaluated on one row
WhereClause(row, protocol, region) ==
    /\ row.status = "Online"
    /\ (protocol # "" => row.protocol = protocol)
    /\ (RegionFilterApplies(region) =>
            (row.region = Trim(region) \/ row.region = NullText))

MatchingMutAllOnline(table, protocol, region) ==
    {i \in DOMAIN table : table[i] # NoRow /\ table[i].status = "Online"}

Matching(table, protocol, region) ==
    {i \in DOMAIN table :
        table[i] # NoRow /\ WhereClause(table[i], protocol, region)}

OrderedBeforeMutAny(a, b) == TRUE

\* ORDER BY (response_time IS NULL) ASC, response_time ASC: a may precede b
OrderedBefore(a, b) ==
    \/ b.response_time = <<>>
    \/ /\ a.response_time # <<>>
       /\ a.response_time[1] <= b.response_time[1]

RECURSIVE Perms(_)
Perms(S) ==
    IF S = {} THEN {<<>>}
    ELSE UNION {{<<x>> \o p : p \in Perms(S \ {x})} : x \in S}

OrderingsMutById(table, S) ==
    {p \in Perms(S) :
        \A i \in 1..Len(p) : \A j \in 1..Len(p) :
            i < j => /\ OrderedBefore(table[p[i]], table[p[j]])
                     /\ (OrderedBefore(table[p[j]], table[p[i]]) => p[i] < p[j])}

\* every order the ORDER BY clause can produce; RANDOM() breaks the ties
Orderings(table, S) ==
    {p \in Perms(S) :
        \A i \in 1..Len(p) : \A j \in 1..Len(p) :
            i < j => OrderedBefore(table[p[i]], table[p[j]])}

LimitMutNone(p, n) == p

\* LIMIT n (a negative LIMIT is no limit in SQLite)
Limit(p, n) == IF n < 0 THEN p ELSE SubSeq(p, 1, Min(n, Len(p)))

\* a row of the SELECT list of getPeers (the modelled columns of it)
PeerNodeInfo(table, i) ==
    [id |-> i, protocol |-> table[i].protocol, status |-> table[i].status,
     response_time |-> table[i].response_time, region |-> table[i].region]

\* the rows of the nodes p, in order
PeerRows(table, p) == [k \in 1 .. Len(p) |-> PeerNodeInfo(table, p[k])]

\* Node.getPeers(params) is called; req tells that NodeController.getPeers
\* is the caller, and previous is the list the caller got from an earlier
\* call and still holds
GetPeersCall(req, count, protocol, region, previous) ==
    [op |-> "getPeers", pc |-> "count", req |-> req, count |-> count,
     protocol |-> protocol, region |-> region, previous |-> previous,
     result |-> [peers |-> <<>>, total_available |-> 0,
                 next_batch_available |-> FALSE]]

\* what the SELECT of getPeers can return on a table, and the value the
\* call returns with it
getPeers(table, call) ==
    LET n == PeerCount(call.count)
        S == Matching(table, call.protocol, call.region)
    IN  {[peers |-> PeerRows(table, Limit(p, n)),
          total_available |-> call.result.total_available,
          next_batch_available |-> call.result.total_available > n] :
            p \in Orderings(table, S)}

\* the tables of a registry whose nodes were created and reported at the
\* start time: each id is absent or any row; a node never reported is
\* Offline with no response time
HealthFields ==
    {<<"Offline", <<>>, NullText>>} \cup
    {<<s, t, ToISOString(0)>> : s \in Statuses, t \in ResponseTimes}

FilledRows(protocols, regions, healths) ==
    {[protocol |-> p, region |-> r, status |-> h[1], response_time |-> h[2],
      last_status_update |-> h[3]] :
        p \in protocols, r \in regions, h \in healths}

NodeRows == FilledRows(Protocols, Regions, HealthFields)

\* successResponse(res, {peers, total_available, next_batch_available})
PeersResponse(res, result) ==
    [res EXCEPT !.pc = "done", !.status = 200, !.peers = result.peers,
                !.total_available = result.total_available,
                !.next_batch_available = result.next_batch_available]

\* Node.getPeers(params) is called by a caller that holds no earlier result
GetPeers(inputs) ==
    /\ peersCall = NoCall
    /\ \E params \in inputs :
          peersCall' = GetPeersCall(FALSE, params.count, params.protocol,
                                    params.region, <<>>)
    /\ UNCHANGED <<restVars, last, nodes, nextNodeId, node_status_history,
                   writers, peersRes, statusRes, conn, calls>>

\* the caller calls again with the same parameters while it holds the
\* result of its earlier call
GetPeersAgain ==
    /\ peersCall # NoCall /\ peersCall.pc = "returned"
    /\ peersCall' = GetPeersCall(FALSE, peersCall.count, peersCall.protocol,
                                 peersCall.region, peersCall.result.peers)
    /\ UNCHANGED <<restVars, last, nodes, nextNodeId, node_status_history,
                   writers, peersRes, statusRes, conn, calls>>

\* await db.get("SELECT COUNT(*) as count FROM nodes WHERE ...") on the
\* table as it is now
PeersCount ==
    /\ peersCall # NoCall /\ peersCall.pc = "count"
    /\ peersCall' =
          [peersCall EXCEPT
              !.pc = "select",
              !.result.total_available =
                  Cardinality(Matching(nodes, peersCall.protocol,
                                       peersCall.region))]
    /\ UNCHANGED <<restVars, last, nodes, nextNodeId, node_status_history,
                   writers, peersRes, statusRes, conn, calls>>

\* await db.all("SELECT ... ORDER BY ... LIMIT ?") on the table as it is
\* now, and the return of the result; NodeController.getPeers answers with
\* it at once
PeersSelect ==
    /\ peersCall # NoCall /\ peersCall.pc = "select"
    /\ \E result \in getPeers(nodes, peersCall) :
          IF peersCall.req
          THEN /\ peersCall' = NoCall
               /\ peersRes' = PeersResponse(peersRes, result)
          ELSE /\ peersCall' = [peersCall EXCEPT !.pc = "returned",
                                                 !.result = result]
               /\ peersRes' = peersRes
    /\ UNCHANGED <<restVars, last, nodes, nextNodeId, node_status_history,
                   writers, statusRes, conn, calls>>

\* the caller has taken the result
PeersReturn ==
    /\ peersCall # NoCall /\ peersCall.pc = "returned"
    /\ peersCall' = NoCall
    /\ UNCHANGED <<restVars, last, nodes, nextNodeId, node_status_history,
                   writers, peersRes, statusRes, conn, calls>>

\* ---------------------------------------------------------------------
\* The node registry: Node.create, update, delete, updateStatus.  Each
\* action is one awaited statement on the shared connection, with the code
\* that follows it up to the next await.
\* ---------------------------------------------------------------------

DefaultStatusMutOnline == "Online"

\* "status" TEXT DEFAULT 'Offline' of the nodes table
DefaultStatus == "Offline"

\* inputs of Node.create (a region of '' is stored as NULL)
CreateProtocols == {"http"}
CreateRegions == {NullText}

\* inputs of Node.update: the fields given and their values; the object can
\* carry a status and a response_time at run time
UpdateInputs ==
    {[given |-> {"region"}, protocol |-> "", region |-> US, status |-> "",
      response_time |-> <<>>],
     [given |-> {"region"}, protocol |-> "", region |-> NullText,
      status |-> "", response_time |-> <<>>],
     [given |-> {"protocol"}, protocol |-> "ws", region |-> NullText,
      status |-> "", response_time |-> <<>>],
     [given |-> {"status", "response_time"}, protocol |-> "",
      region |-> NullText, status |-> "Online", response_time |-> <<10>>]}

\* inputs of Node.updateStatus: responseTime is absent (<<>>) or a number
StatusInputs == Statuses
ResponseTimeInputs == {<<>>, <<0>>, <<20>>}

\* value || null for an optional number: undefined and 0 are falsy
NumberOrNullMutKeepZero(value) == value

NumberOrNull(value) == IF value = <<>> \/ value[1] = 0 THEN <<>> ELSE value

NodeExists(table, id) == id \in DOMAIN table /\ table[id] # NoRow

\* Node.create: await db.run("INSERT INTO nodes ...") without the status
\* columns; the id is the next of the AUTOINCREMENT sequence, and ids are
\* the ids the table can give
NodeCreate(ids) ==
    /\ nextNodeId \in ids
    /\ \E protocol \in CreateProtocols, region \in CreateRegions :
          nodes' = [nodes EXCEPT ![nextNodeId] =
                      [protocol |-> protocol, region |-> TextOrNull(region),
                       status |-> DefaultStatus, response_time |-> <<>>,
                       last_status_update |-> NullText]]
    /\ nextNodeId' = nextNodeId + 1
    /\ UNCHANGED <<restVars, last, peersCall, node_status_history, writers,
                   peersRes, statusRes, conn, calls>>

\* seq without the rows of node id, in order
RECURSIVE SelectRows(_, _)
SelectRows(seq, id) ==
    IF seq = <<>> THEN <<>>
    ELSE IF Head(seq).node_id = id THEN SelectRows(Tail(seq), id)
    ELSE <<Head(seq)>> \o SelectRows(Tail(seq), id)

\* Node.delete: await db.run("DELETE FROM nodes WHERE id = ?"); the history
\* rows go with ON DELETE CASCADE
NodeDelete ==
    /\ \E id \in NodeIds :
          /\ nodes' = [nodes EXCEPT ![id] = NoRow]
          /\ node_status_history' = SelectRows(node_status_history, id)
    /\ UNCHANGED <<restVars, last, peersCall, nextNodeId, writers, peersRes,
                   statusRes, conn, calls>>

\* ---------------------------------------------------------------------
\* Node.update: transaction(SELECT, UPDATE, SELECT)
\* ---------------------------------------------------------------------

\* Node.update(id, updates) is called
NodeUpdate(c, ids, inputs) ==
    /\ Free(c)
    /\ \E id \in ids, updates \in inputs :
          calls' = [calls EXCEPT ![c] = NodeUpdateCall(id, updates)]
    /\ last' = NoCall
    /\ UNCHANGED <<restVars, peersCall, nodes, nextNodeId,
                   node_status_history, writers, peersRes, statusRes, conn>>

\* await tx.get("SELECT * FROM nodes WHERE id = ?"); without a row the
\* callback returns null and COMMIT is awaited
UpdateFind(c) ==
    /\ calls[c].pc = "find" /\ calls[c].op = "update"
    /\ calls' = [calls EXCEPT ![c].pc =
                    IF NodeExists(nodes, calls[c].id) THEN "set" ELSE "commit"]
    /\ UNCHANGED <<restVars, last, peersCall, nodes, nextNodeId,
                   node_status_history, writers, peersRes, statusRes, conn>>

applyUpdateMutStatus(row, updates) ==
    IF "status" \in updates.given
    THEN [row EXCEPT !.status = updates.status,
                     !.response_time = updates.response_time]
    ELSE row

\* the SET list built by Node.update, applied to the row: protocol and
\* region are the modelled columns it can name
applyUpdate(row, updates) ==
    [row EXCEPT
        !.protocol = IF "protocol" \in updates.given THEN updates.protocol
                     ELSE @,
        !.region = IF "region" \in updates.given
                   THEN TextOrNull(updates.region) ELSE @]

\* await tx.run("UPDATE nodes SET ... WHERE id = ?")
UpdateSet(c) ==
    /\ calls[c].pc = "set" /\ calls[c].op = "update"
    /\ nodes' = IF NodeExists(nodes, calls[c].id)
                THEN [nodes EXCEPT ![calls[c].id] =
                        applyUpdate(@, calls[c].updates)]
                ELSE nodes
    /\ calls' = [calls EXCEPT ![c].pc = "reread"]
    /\ UNCHANGED <<restVars, last, peersCall, nextNodeId,
                   node_status_history, writers, peersRes, statusRes, conn>>

\* await tx.get("SELECT * FROM nodes WHERE id = ?"): the callback returns
\* the row, and COMMIT is awaited
UpdateReread(c) ==
    /\ calls[c].pc = "reread" /\ calls[c].op = "update"
    /\ calls' = [calls EXCEPT ![c] =
                    [@ EXCEPT !.pc = "commit",
                              !.result = nodes[calls[c].id]]]
    /\ UNCHANGED <<restVars, last, peersCall, nodes, nextNodeId,
                   node_status_history, writers, peersRes, statusRes, conn>>

\* ---------------------------------------------------------------------
\* Node.updateStatus: UPDATE nodes, then INSERT INTO node_status_history
\* ---------------------------------------------------------------------

statusUpdateMutFirstWins(table, id, status, responseTime, at) ==
    IF NodeExists(table, id) /\ table[id].last_status_update = NullText
    THEN [table EXCEPT ![id] =
            [@ EXCEPT !.status = status,
                      !.response_time = IF responseTime = <<>> \/ responseTime[1] = 0
                                        THEN <<>> ELSE responseTime,
                      !.last_status_update = at]]
    ELSE table

\* UPDATE nodes SET status = ?, response_time = ?, last_status_update = ?
statusUpdate(table, id, status, responseTime, at) ==
    IF NodeExists(table, id)
    THEN [table EXCEPT ![id] =
            [@ EXCEPT !.status = status,
                      !.response_time = NumberOrNull(responseTime),
                      !.last_status_update = at]]
    ELSE table

historyInsertMutDeduplicate(table, history, id, status, responseTime, at) ==
    IF ~NodeExists(table, id) THEN history
    ELSE IF history # <<>> /\ history[Len(history)].node_id = id
            /\ history[Len(history)].status = status
    THEN history
    ELSE Append(history, [node_id |-> id, status |-> status,
                          response_time |-> NumberOrNull(responseTime),
                          checked_at |-> at])

\* INSERT INTO node_status_history: fails on the foreign key when the node
\* does not exist, and updateStatus catches the error
historyInsert(table, history, id, status, responseTime, at) ==
    IF NodeExists(table, id)
    THEN Append(history, [node_id |-> id, status |-> status,
                          response_time |-> NumberOrNull(responseTime),
                          checked_at |-> at])
    ELSE history

\* Node.updateStatus(id, status, metadata, responseTime) is called (the
\* metadata column is not modelled): it takes the time and is suspended;
\* req tells that NodeController.updateStatus is the caller
UpdateStatusCall(req, id, status, responseTime, t) ==
    [pc |-> "update", req |-> req, id |-> id, status |-> status,
     responseTime |-> responseTime, at |-> ToISOString(t),
     changed |-> FALSE, result |-> FALSE, order |-> 0, row |-> 0]

\* the calls whose UPDATE has run
Updated == {w \in WriterIds : writers[w].pc \in {"insert", "done"}}

\* the calls that have not returned
Pending == {w \in WriterIds : writers[w].pc \in {"update", "insert"}}

\* the lowest slot without a call of updateStatus
FreeWriter(w) ==
    /\ writers[w].pc = "idle"
    /\ \A w0 \in WriterIds : w0 < w => writers[w0].pc # "idle"

\* a call of updateStatus(id, status, metadata, responseTime) begins, with
\* <<status, responseTime>> one of inputs
WriterStart(w, ids, inputs) ==
    /\ FreeWriter(w)
    /\ Len(node_status_history) + Cardinality(Pending) < MaxHistory
    /\ \E id \in ids, input \in inputs :
          writers' = [writers EXCEPT ![w] =
                        UpdateStatusCall(FALSE, id, input[1], input[2], now)]
    /\ UNCHANGED <<restVars, last, peersCall, nodes, nextNodeId,
                   node_status_history, peersRes, statusRes, conn, calls>>

\* await db.run("UPDATE nodes SET status = ?, ..."): changed is
\* result.changes > 0, and order counts the UPDATEs of the calls in flight
WriterUpdate(w) ==
    /\ writers[w].pc = "update"
    /\ LET q == writers[w]
       IN  /\ nodes' = statusUpdate(nodes, q.id, q.status, q.responseTime, q.at)
           /\ writers' = [writers EXCEPT ![w] =
                            [q EXCEPT !.pc = "insert",
                                      !.changed = NodeExists(nodes, q.id),
                                      !.order = Cardinality(Updated) + 1]]
    /\ UNCHANGED <<restVars, last, peersCall, nextNodeId,
                   node_status_history, peersRes, statusRes, conn, calls>>

\* what Node.updateStatus returns after its INSERT: result.changes > 0 of
\* the UPDATE, or false from the catch block when the INSERT failed
updateStatusReturns(table, q) == NodeExists(table, q.id) /\ q.changed

\* successResponse(res, null, ...): the result of Node.updateStatus is not
\* looked at
StatusResponse(res, returned) ==
    [res EXCEPT !.pc = "done", !.status = 200, !.returned = returned]

\* await db.run("INSERT INTO node_status_history ..."), and the return; row
\* is the place of the call's row in the history; NodeController.updateStatus
\* answers at once
WriterInsert(w) ==
    /\ writers[w].pc = "insert"
    /\ LET q == writers[w]
           history == historyInsert(nodes, node_status_history, q.id, q.status,
                                    q.responseTime, q.at)
           returned == updateStatusReturns(nodes, q)
       IN  /\ node_status_history' = history
           /\ IF q.req
              THEN /\ writers' = [writers EXCEPT ![w] = Idle]
                   /\ statusRes' = StatusResponse(statusRes, returned)
              ELSE /\ writers' = [writers EXCEPT ![w] =
                                    [q EXCEPT !.pc = "done",
                                              !.result = returned,
                                              !.row = IF NodeExists(nodes, q.id)
                                                      THEN Len(history) ELSE 0]]
                   /\ statusRes' = statusRes
    /\ UNCHANGED <<restVars, last, peersCall, nodes, nextNodeId, peersRes,
                   conn, calls>>

\* the caller has taken the result
WriterReturn(w) ==
    /\ writers[w].pc = "done"
    /\ writers' = [writers EXCEPT ![w] = Idle]
    /\ UNCHANGED <<restVars, last, peersCall, nodes, nextNodeId,
                   node_status_history, peersRes, statusRes, conn, calls>>

\* the caller of a call that settled has taken the outcome
OutcomeTaken ==
    /\ last # NoCall
    /\ last' = NoCall
    /\ UNCHANGED <<restVars, peersCall, nodes, nextNodeId,
                   node_status_history, writers, peersRes, statusRes, conn,
                   calls>>

\* every caller has taken what its call returned: the value a call returns
\* is looked at when it is returned
Taken ==
    /\ last = NoCall
    /\ ~(peersCall # NoCall /\ peersCall.pc = "returned")
    /\ \A w \in WriterIds : writers[w].pc # "done"

\* ---------------------------------------------------------------------
\* The peer discovery endpoint: NodeController.getPeers
\* ---------------------------------------------------------------------

\* a GET /peers request arrives
PeersRequest ==
    /\ peersRes = NoCall
    /\ peersCall = NoCall
    /\ \E query \in CountQueries :
          LET res == getPeersHandler(query)
          IN  /\ peersRes' = res
              /\ peersCall' = IF res.called
                              THEN GetPeersCall(TRUE, res.count, "", NullText,
                                                <<>>)
                              ELSE NoCall
    /\ UNCHANGED <<restVars, last, nodes, nextNodeId, node_status_history,
                   writers, statusRes, conn, calls>>

\* the response was delivered
PeersRespond ==
    /\ peersRes # NoCall /\ peersRes.pc = "done"
    /\ peersRes' = NoCall
    /\ UNCHANGED <<restVars, last, nodes, peersCall, nextNodeId,
                   node_status_history, writers, statusRes, conn, calls>>

\* ---------------------------------------------------------------------
\* The status route: PUT /nodes/:id/status (NodeController.updateStatus)
\* ---------------------------------------------------------------------

\* the parsed :id parameter and the status field of the body ("" when the
\* body has no status field)
StatusIds == 0 .. MaxNodes
StatusBodies == {"", "Online", "Offline", "Degraded"}

\* response_time = Number(response_time), replaced by 0 when it is not a
\* number >= 0
responseTimeOrZero(value) ==
    IF validateNumber(value, <<0>>, <<>>) THEN value ELSE <<0>>

\* NodeController.updateStatus up to its await: the validation of the
\* parameters and the call of Node.updateStatus; found tells that the node
\* is in the table when the request arrives
StatusRequest(ids, bodies, responseTimes) ==
    /\ statusRes = NoCall
    /\ \E nodeId \in ids, status \in bodies, response_time \in responseTimes :
          IF ~validateNumber(<<nodeId>>, <<1>>, <<>>) \/ status = ""
             \/ status \notin {"Online", "Offline"}
          THEN /\ statusRes' = [op |-> "updateStatus", pc |-> "done",
                                id |-> nodeId, status |-> 400,
                                called |-> FALSE,
                                found |-> NodeExists(nodes, nodeId),
                                returned |-> FALSE]
               /\ writers' = writers
          ELSE /\ Len(node_status_history) + Cardinality(Pending) < MaxHistory
               /\ \E w \in WriterIds :
                     /\ FreeWriter(w)
                     /\ writers' = [writers EXCEPT ![w] =
                           UpdateStatusCall(TRUE, nodeId, status,
                                            responseTimeOrZero(response_time),
                                            now)]
               /\ statusRes' = [op |-> "updateStatus", pc |-> "await",
                                id |-> nodeId, status |-> 0, called |-> TRUE,
                                found |-> NodeExists(nodes, nodeId),
                                returned |-> FALSE]
    /\ UNCHANGED <<restVars, last, peersCall, nodes, nextNodeId,
                   node_status_history, peersRes, conn, calls>>

\* the response was delivered
StatusRespond ==
    /\ statusRes # NoCall /\ statusRes.pc = "done"
    /\ statusRes' = NoCall
    /\ UNCHANGED <<restVars, last, peersCall, nodes, nextNodeId,
                   node_status_history, writers, peersRes, conn, calls>>

\* ---------------------------------------------------------------------
\* Peer discovery on any table, with writes between the two queries
\* ---------------------------------------------------------------------

\* the rows of the first tables: never reported, or reported Online
PeerHealths ==
    {<<"Offline", <<>>, NullText>>, <<"Online", <<>>, ToISOString(0)>>,
     <<"Online", <<10>>, ToISOString(0)>>, <<"Online", <<20>>, ToISOString(0)>>}

\* the history of a table whose reported nodes 1 .. k were reported once
RECURSIVE HistoryOf(_, _)
HistoryOf(table, k) ==
    IF k = 0 THEN <<>>
    ELSE IF NodeExists(table, k) /\ table[k].last_status_update # NullText
    THEN Append(HistoryOf(table, k - 1),
                [node_id |-> k, status |-> table[k].status,
                 response_time |-> table[k].response_time,
                 checked_at |-> table[k].last_status_update])
    ELSE HistoryOf(table, k - 1)

\* a database the program can hold: each id is absent or any row, and the
\* ids above those in use are still to be given
InitPeers ==
    /\ now \in StartTimes
    /\ tz \in {UTC}
    /\ ticks = 0
    /\ api_keys = [i \in KeyIds |-> NoRow]
    /\ nextKeyId = 1
    /\ api_access_logs = <<>>
    /\ last = NoCall
    /\ reqs = [r \in ReqIds |-> Idle]
    /\ nodes \in [NodeIds -> FilledRows(Protocols, Regions, PeerHealths)
                                \cup {NoRow}]
    /\ peersCall = NoCall
    /\ nextNodeId \in {k \in 1 .. MaxNodes + 1 :
                          \A i \in NodeIds : NodeExists(nodes, i) => i < k}
    /\ node_status_history = HistoryOf(nodes, MaxNodes)
    /\ writers = [w \in WriterIds |-> Idle]
    /\ peersRes = NoCall
    /\ columns = ApiKeysColumns
    /\ InitExt

\* the parameters of the calls: each count with and without a protocol,
\* each region with the default count, and both filters at once
PeersInputs ==
    [count : {0, 1}, protocol : ProtocolParams, region : {NullText}]
        \cup [count : {0}, protocol : {""}, region : RegionParams \ {NullText}]
        \cup [count : {0}, protocol : {"http"}, region : {PaddedUS}]

\* no call that writes is in flight
AtRest ==
    /\ \A w \in WriterIds : writers[w].pc = "idle"
    /\ \A c \in CallIds : calls[c] = Idle

\* the writes made while getPeers runs, one call at a time
PeerUpdates == {u \in UpdateInputs : u.given = {"region"} /\ u.region = US}

NextPeers ==
    \/ Taken /\ GetPeers(PeersInputs)
    \/ Taken /\ PeersCount
    \/ Taken /\ PeersSelect
    \/ PeersReturn
    \/ Taken /\ NodeCreate(NodeIds)
    \/ Taken /\ NodeDelete
    \/ Taken /\ AtRest /\ WriterStart(1, NodeIds, {<<"Online", <<10>>>>})
    \/ Taken /\ WriterUpdate(1)
    \/ Taken /\ WriterInsert(1)
    \/ WriterReturn(1)
    \/ Taken /\ AtRest /\ NodeUpdate(1, {1}, PeerUpdates)
    \/ Taken /\ TxBegin(1)
    \/ Taken /\ UpdateFind(1)
    \/ Taken /\ UpdateSet(1)
    \/ Taken /\ UpdateReread(1)
    \/ Taken /\ TxCommit(1)
    \/ OutcomeTaken

SpecPeers == InitPeers /\ [][NextPeers]_vars

\* ---------------------------------------------------------------------
\* Properties of Node.getPeers
\* ---------------------------------------------------------------------

\* a call has returned to a caller that holds the result
HasReturned == peersCall # NoCall /\ peersCall.pc = "returned"

\* the ids of the rows of a list of peers
Ids(peers) == {peers[k].id : k \in 1 .. Len(peers)}

\* the region filters that name the region US, bare or with white space
\* around it
NamesUS == {US, PaddedUS, TabUS, USNewline, NbspUS}

\* C10 as stated: every returned node is Online, has the protocol of the
\* protocol filter when one is given, and, when a region filter is given,
\* has a region equal to the filter or no region.
C10_RegionEqualsFilter ==
    HasReturned =>
        \A k \in 1 .. Len(peersCall.result.peers) :
            LET row == peersCall.result.peers[k]
            IN  /\ row.status = "Online"
                /\ (peersCall.protocol # "" =>
                        row.protocol = peersCall.protocol)
                /\ (peersCall.region # <<>> =>
                        (row.region = peersCall.region
                            \/ row.region = NullText))

\* C10 amended: every returned node is Online, has the protocol of the
\* protocol filter when one is given, and, when a region filter that is not
\* all white space is given, has a region equal to the filter with the
\* white space around it removed, or no region; the rows returned are rows
\* of the table the SELECT read.
C10_RegionEqualsTrimmedFilter ==
    /\ [](HasReturned =>
            \A k \in 1 .. Len(peersCall.result.peers) :
                LET row == peersCall.result.peers[k]
                IN  /\ row.status = "Online"
                    /\ (peersCall.protocol # "" =>
                            row.protocol = peersCall.protocol)
                    /\ (peersCall.region \in NamesUS =>
                            (row.region = US \/ row.region = NullText)))
    /\ [][PeersSelect =>
            \A k \in 1 .. Len(peersCall'.result.peers) :
                LET row == peersCall'.result.peers[k]
                IN  /\ NodeExists(nodes, row.id)
                    /\ row = PeerNodeInfo(nodes, row.id)]_vars

\* calls with a protocol filter and each region filter that names US with
\* white space around it, on a table that also holds an Online node of
\* another region, return a node of region US and not the other
C10_WitnessOf(region) ==
    /\ HasReturned
    /\ peersCall.region = region
    /\ \E k \in 1 .. Len(peersCall.result.peers) :
          peersCall.result.peers[k].region = US
    /\ \E j \in NodeIds :
          /\ NodeExists(nodes, j)
          /\ nodes[j].status = "Online"
          /\ nodes[j].region = EU
          /\ j \notin Ids(peersCall.result.peers)

C10_Witness ==
    /\ C10_WitnessOf(PaddedUS)
    /\ peersCall.protocol = "http"

\* the nodes the call's filters admit, spelled out for the filters drawn:
\* no region condition for an absent filter or one that is all white
\* space, region US or none for the filters that name US
EligibleForCall(i) ==
    /\ NodeExists(nodes, i)
    /\ nodes[i].status = "Online"
    /\ (peersCall.protocol = "http" => nodes[i].protocol = "http")
    /\ (peersCall.region \in NamesUS => nodes[i].region \in {US, NullText})

EligibleSet == {i \in NodeIds : EligibleForCall(i)}

\* the batch size of the call: the count given, 5 when none is given
CallCount == IF peersCall.count = 0 THEN 5 ELSE peersCall.count

\* C11: total_available is the number of all eligible nodes of the table
\* the COUNT query reads, whatever the batch size; under the region filter
\* "US" an Online node with no region is counted, and returned when the
\* batch is not cut short, and an Online node of region "EU" is neither
\* counted nor returned.
C11_TotalCountsEligible ==
    /\ [][PeersCount =>
            /\ peersCall'.result.total_available = Cardinality(EligibleSet)
            /\ (peersCall.region = US /\ peersCall.protocol = "") =>
                  \A i \in NodeIds :
                      (NodeExists(nodes, i) /\ nodes[i].status = "Online") =>
                          /\ nodes[i].region = NullText => i \in EligibleSet
                          /\ nodes[i].region = EU => i \notin EligibleSet]_vars
    /\ [][(PeersSelect /\ peersCall.region = US /\ peersCall.protocol = "") =>
            \A i \in NodeIds :
                (NodeExists(nodes, i) /\ nodes[i].status = "Online") =>
                    /\ (/\ nodes[i].region = NullText
                        /\ Cardinality(EligibleSet) <= CallCount) =>
                            i \in Ids(peersCall'.result.peers)
                    /\ nodes[i].region = EU =>
                            i \notin Ids(peersCall'.result.peers)]_vars

\* region filter "US" over an Online node with no region and an Online node
\* of region EU: one is counted and returned, the other is not
C11_Witness ==
    /\ HasReturned
    /\ peersCall.region = US
    /\ peersCall.result.total_available = 1
    /\ \E i, j \in NodeIds :
          /\ NodeExists(nodes, i) /\ nodes[i].status = "Online"
          /\ nodes[i].region = NullText
          /\ NodeExists(nodes, j) /\ nodes[j].status = "Online"
          /\ nodes[j].region = EU
          /\ Ids(peersCall.result.peers) = {i}

\* C12: a call with count in 1..20 whose SELECT reads as many eligible
\* nodes as its COUNT counted, as it does when no write runs between the
\* two, returns min(count, total_available) peers, and
\* next_batch_available is true exactly when total_available > count.
C12_BatchSize ==
    [][(/\ PeersSelect
        /\ peersCall.count \in 1..20
        /\ peersCall.result.total_available = Cardinality(EligibleSet)) =>
          LET result == peersCall'.result
          IN  /\ Len(result.peers) =
                    Min(peersCall.count, result.total_available)
              /\ Len(result.peers) <= peersCall.count
              /\ Len(result.peers) <= result.total_available
              /\ result.next_batch_available <=>
                    (result.total_available > peersCall.count)]_vars

\* a batch cut short: more nodes are eligible than were asked for
C12_Witness ==
    /\ HasReturned
    /\ peersCall.count = 1
    /\ peersCall.result.total_available = 2
    /\ Cardinality(EligibleSet) = 2
    /\ Len(peersCall.result.peers) = 1
    /\ peersCall.result.next_batch_available

Known(row) == row.response_time # <<>>

\* C13: in the returned list peers with a known response_time come before
\* peers without one and known response_times do not decrease; no eligible
\* node left out has a known response_time strictly smaller than that of a
\* returned peer, or a known response_time while a returned peer has none.
C13_HealthOrdering ==
    [][PeersSelect =>
          LET peers == peersCall'.result.peers
          IN  /\ \A a, b \in 1..Len(peers) :
                    a < b =>
                        /\ Known(peers[b]) => Known(peers[a])
                        /\ (Known(peers[a]) /\ Known(peers[b])) =>
                              peers[a].response_time[1]
                                  <= peers[b].response_time[1]
              /\ \A out \in EligibleSet \ Ids(peers) : \A k \in 1..Len(peers) :
                    /\ (Known(nodes[out]) /\ Known(peers[k])) =>
                          nodes[out].response_time[1]
                              >= peers[k].response_time[1]
                    /\ Known(nodes[out]) => Known(peers[k])]_vars

\* two peers returned, the faster one first
C13_Witness ==
    /\ HasReturned
    /\ Len(peersCall.result.peers) = 2
    /\ Known(peersCall.result.peers[1])
    /\ Known(peersCall.result.peers[2])
    /\ peersCall.result.peers[1].response_time[1]
          < peersCall.result.peers[2].response_time[1]
    /\ peersCall.result.peers[1].id > peersCall.result.peers[2].id

\* C27 as stated: getPeers reports a consistent snapshot even when a status
\* update, node creation or node deletion runs between its COUNT query and
\* its SELECT query: the number of returned peers never exceeds
\* total_available, and peers is empty whenever total_available is 0.
C27_ConsistentSnapshot ==
    HasReturned =>
        /\ Len(peersCall.result.peers) <= peersCall.result.total_available
        /\ peersCall.result.total_available = 0 => peersCall.result.peers = <<>>

\* ---------------------------------------------------------------------
\* The peer discovery endpoint while the registry is written
\* ---------------------------------------------------------------------

NextPeersApi ==
    \/ PeersRequest
    \/ PeersCount
    \/ PeersSelect
    \/ PeersRespond
    \/ NodeCreate(NodeIds)
    \/ NodeDelete
    \/ StatusRequest(NodeIds, {"Online"}, {<<20>>})
    \/ WriterUpdate(1)
    \/ WriterInsert(1)
    \/ StatusRespond

SpecPeersApi == InitRegistry /\ [][NextPeersApi]_vars

\* C15 as stated: a request whose count parameter is 0, negative or more than
\* 20 is answered with an input error and Node.getPeers is not called: the
\* count is never clamped into 1..20 or replaced by the default batch size.
C15_OutOfRangeRejected ==
    (peersRes # NoCall
        /\ peersRes.query \in {<<"0">>, <<"-", "1">>, <<"2", "1">>,
                               <<"0", "x", "1", "5">>}) =>
        /\ peersRes.status \notin {0, 200}
        /\ ~peersRes.called

\* ---------------------------------------------------------------------
\* The registry from an empty database: every operation of the Node class,
\* interleaved statement by statement
\* ---------------------------------------------------------------------

\* inputs of Node.getPeers in the registry
RegistryInputs == [count : {1, 5}, protocol : {""}, region : {NullText}]

\* the updates made in the registry
RegistryUpdates == {u \in UpdateInputs : u.region # US}

\* the status updates made in the registry
RegistryReports == {<<"Online", <<20>>>>, <<"Offline", <<0>>>>, <<"Offline", <<>>>>}

\* the calls in flight
Overlap ==
    Cardinality({c \in CallIds : calls[c] # Idle})
        + Cardinality({w \in WriterIds : writers[w].pc # "idle"})
        + (IF peersCall # NoCall THEN 1 ELSE 0)

\* a call may begin
MayBegin == Taken /\ Overlap < MaxOverlap

NextNodes ==
    \/ Taken /\ NodeCreate({1})
    \/ Taken /\ NodeDelete
    \/ \E c \in CallIds : MayBegin /\ NodeUpdate(c, {1}, RegistryUpdates)
    \/ \E c \in CallIds : Taken /\ TxBegin(c)
    \/ \E c \in CallIds : Taken /\ UpdateFind(c)
    \/ \E c \in CallIds : Taken /\ UpdateSet(c)
    \/ \E c \in CallIds : Taken /\ UpdateReread(c)
    \/ \E c \in CallIds : Taken /\ TxCommit(c)
    \/ \E c \in CallIds : Taken /\ TxRollback(c)
    \/ \E w \in WriterIds : MayBegin /\ WriterStart(w, {1}, RegistryReports)
    \/ \E w \in WriterIds : Taken /\ WriterUpdate(w)
    \/ \E w \in WriterIds : Taken /\ WriterInsert(w)
    \/ \E w \in WriterIds : WriterReturn(w)
    \/ MayBegin /\ GetPeers(RegistryInputs)
    \/ Taken /\ PeersCount
    \/ Taken /\ PeersSelect
    \/ PeersReturn
    \/ OutcomeTaken

SpecNodes == InitRegistry /\ [][NextNodes]_vars

\* ---------------------------------------------------------------------
\* Properties of the node registry
\* ---------------------------------------------------------------------

\* node i has had no status update since it was created
NeverReported(i) == NodeExists(nodes, i) /\ nodes[i].last_status_update = NullText

\* node i is the only node of the registry
OnlyNode(i) == NodeExists(nodes, i) /\ \A j \in NodeIds \ {i} : ~NodeExists(nodes, j)

\* the SELECT of the call in flight reads as many eligible nodes as its
\* COUNT counted, as it does when no write ran between the two
Untorn ==
    peersCall.result.total_available = Cardinality(EligibleSet)

\* C16: a node that has had no status update since its creation is Offline
\* and is never returned; with only that node in the registry getPeers(5)
\* returns no peer, total_available 0 and next_batch_available false; and
\* when the only node was set Online with response time 20, getPeers(5)
\* returns exactly that node.
C16_OfflineUntilReported ==
    /\ [](\A i \in NodeIds : NeverReported(i) => nodes[i].status = "Offline")
    /\ [][PeersSelect =>
            /\ \A i \in Ids(peersCall'.result.peers) : ~NeverReported(i)
            /\ \A i \in NodeIds :
                  (peersCall.count = 5 /\ OnlyNode(i) /\ Untorn) =>
                      /\ NeverReported(i) =>
                            peersCall'.result =
                                [peers |-> <<>>, total_available |-> 0,
                                 next_batch_available |-> FALSE]
                      /\ (/\ nodes[i].status = "Online"
                          /\ nodes[i].response_time = <<20>>) =>
                            peersCall'.result =
                                [peers |-> PeerRows(nodes, <<i>>),
                                 total_available |-> 1,
                                 next_batch_available |-> FALSE]]_vars

\* the only node was reported Online at 20 ms and getPeers(5) returned it
C16_Witness ==
    /\ HasReturned
    /\ peersCall.count = 5
    /\ \E i \in NodeIds :
          /\ OnlyNode(i)
          /\ peersCall.result.peers = PeerRows(nodes, <<i>>)
          /\ node_status_history =
                <<[node_id |-> i, status |-> "Online", response_time |-> <<20>>,
                   checked_at |-> ToISOString(now)]>>

LastRow == node_status_history[Len(node_status_history)]

\* a step of a call of updateStatus
StatusStep(w) == WriterStart(w, NodeIds, StatusInputs \X ResponseTimeInputs)
                    \/ WriterUpdate(w) \/ WriterInsert(w) \/ WriterReturn(w)

\* C17: the UPDATE of every updateStatus call on an existing node sets the
\* cached status to the status given, whether or not that changes it, and
\* its INSERT appends exactly one history row, carrying the call's node and
\* status; a call whose two statements found the node returns true; no step
\* of a call changes or removes a history row that is already there.
C17_OneRowPerStatusCall ==
    [][\A w \in WriterIds :
          /\ (WriterUpdate(w) /\ NodeExists(nodes, writers[w].id)) =>
                nodes'[writers[w].id].status = writers[w].status
          /\ (WriterInsert(w) /\ NodeExists(nodes, writers[w].id)) =>
                /\ Len(node_status_history') = Len(node_status_history) + 1
                /\ LastRow'.node_id = writers[w].id
                /\ LastRow'.status = writers[w].status
                /\ writers[w].changed => writers'[w].result
          /\ StatusStep(w) =>
                SubSeq(node_status_history', 1, Len(node_status_history))
                    = node_status_history]_vars

\* two calls in a row with status Offline on a node that was Offline already:
\* two history rows, cached status Offline
C17_Witness ==
    /\ Len(node_status_history) = 2
    /\ \A w \in WriterIds : writers[w].pc \in {"idle", "done"}
    /\ \E i \in NodeIds :
          /\ NodeExists(nodes, i)
          /\ nodes[i].status = "Offline"
          /\ \A k \in 1..2 :
                /\ node_status_history[k].node_id = i
                /\ node_status_history[k].status = "Offline"

StatusFields(row) == <<row.status, row.response_time, row.last_status_update>>

\* a step of a call of Node.update, transaction() included
UpdateStep(c) ==
    calls[c].pc # "idle" /\ calls[c].op = "update"
        /\ (TxBegin(c) \/ UpdateFind(c) \/ UpdateSet(c) \/ UpdateReread(c)
                \/ TxCommit(c) \/ TxRollback(c))

\* C19 as stated: Node.create leaves the cached status, response_time and
\* last_status_update at their defaults (Offline, none, none), no step of
\* Node.update changes any of the three on a node that it leaves in the
\* table, whatever fields it is given, and whenever one of them changes on
\* a node the step is the UPDATE of an updateStatus call on that node.
C19_StatusOnlyByUpdateStatus ==
    [][/\ \A i \in NodeIds :
             (NodeCreate(NodeIds) /\ ~NodeExists(nodes, i) /\ NodeExists(nodes', i)) =>
                 StatusFields(nodes'[i]) = <<"Offline", <<>>, NullText>>
       /\ \A c \in CallIds, i \in NodeIds :
             (UpdateStep(c) /\ NodeExists(nodes, i) /\ NodeExists(nodes', i)) =>
                 StatusFields(nodes'[i]) = StatusFields(nodes[i])
       /\ \A i \in NodeIds :
             (/\ NodeExists(nodes, i) /\ NodeExists(nodes', i)
              /\ StatusFields(nodes'[i]) # StatusFields(nodes[i])) =>
                 \E w \in WriterIds : WriterUpdate(w) /\ writers[w].id = i]_vars

\* C20 as stated: after updateStatus(id, status, responseTime) on an existing
\* node, for every responseTime given, 0 included, the cached response_time
\* and the response_time of the appended history row equal responseTime.
C20_ResponseTimeStored ==
    [][\A w \in WriterIds :
          /\ (/\ WriterUpdate(w) /\ NodeExists(nodes, writers[w].id)
              /\ writers[w].responseTime # <<>>) =>
                nodes'[writers[w].id].response_time = writers[w].responseTime
          /\ (/\ WriterInsert(w) /\ NodeExists(nodes, writers[w].id)
              /\ writers[w].responseTime # <<>>) =>
                LastRow'.response_time = writers[w].responseTime]_vars

\* ---------------------------------------------------------------------
\* Concurrent calls of Node.updateStatus on one node
\* ---------------------------------------------------------------------

\* a registry in which node 1 has been created
InitStatusRace ==
    /\ now \in StartTimes
    /\ tz \in {UTC}
    /\ ticks = 0
    /\ api_keys = [i \in KeyIds |-> NoRow]
    /\ nextKeyId = 1
    /\ api_access_logs = <<>>
    /\ last = NoCall
    /\ reqs = [r \in ReqIds |-> Idle]
    /\ nodes = [i \in NodeIds |->
                  IF i = 1
                  THEN [protocol |-> "http", region |-> NullText,
                        status |-> DefaultStatus, response_time |-> <<>>,
                        last_status_update |-> NullText]
                  ELSE NoRow]
    /\ peersCall = NoCall
    /\ nextNodeId = 2
    /\ node_status_history = <<>>
    /\ writers = [w \in WriterIds |-> Idle]
    /\ peersRes = NoCall
    /\ columns = ApiKeysColumns
    /\ InitExt

NextStatusRace ==
    \/ \E w \in WriterIds :
          WriterStart(w, {1}, StatusInputs \X ResponseTimeInputs)
    \/ \E w \in WriterIds : WriterUpdate(w)
    \/ \E w \in WriterIds : WriterInsert(w)

SpecStatusRace == InitStatusRace /\ [][NextStatusRace]_vars

Finished == {w \in WriterIds : writers[w].pc = "done"}

\* the writer whose UPDATE ran last
LastUpdater(w) ==
    /\ w \in Updated
    /\ \A v \in Updated : writers[v].order <= writers[w].order

\* C18: in every interleaving of the UPDATE and INSERT steps of concurrent
\* updateStatus calls on one node, the history holds exactly one row of each
\* call that has finished, a row of its own, and the cached status is the
\* status of the call whose UPDATE ran last.
C18_LastWriterWins ==
    /\ \A w \in WriterIds : LastUpdater(w) => nodes[1].status = writers[w].status
    /\ Len(node_status_history) = Cardinality(Finished)
    /\ \A w \in Finished :
          /\ writers[w].row \in 1..Len(node_status_history)
          /\ node_status_history[writers[w].row] =
                [node_id |-> 1, status |-> writers[w].status,
                 response_time |-> NumberOrNull(writers[w].responseTime),
                 checked_at |-> writers[w].at]
          /\ \A v \in Finished \ {w} : writers[v].row # writers[w].row

\* two calls with different statuses interleaved as UPDATE 1, UPDATE 2,
\* INSERT 2, INSERT 1: the cached status is that of call 2 and the last
\* history row is that of call 1
C18_Witness ==
    /\ Finished = {1, 2}
    /\ writers[1].status # writers[2].status
    /\ writers[1].order = 1 /\ writers[2].order = 2
    /\ writers[2].row = 1 /\ writers[1].row = 2
    /\ nodes[1].status = writers[2].status
    /\ LastRow.status = writers[1].status

\* ---------------------------------------------------------------------
\* Concurrent updateStatus calls that begin at different times
\* ---------------------------------------------------------------------

NextStatusClock ==
    \/ Tick
    \/ \E w \in WriterIds :
          WriterStart(w, {1}, StatusInputs \X ResponseTimeInputs)
    \/ \E w \in WriterIds : WriterUpdate(w)
    \/ \E w \in WriterIds : WriterInsert(w)

SpecStatusClock == InitStatusRace /\ [][NextStatusClock]_vars

\* every call that began has finished, and at least one has
AllFinished ==
    /\ Finished # {}
    /\ \A w \in WriterIds : writers[w].pc \in {"idle", "done"}

\* the history rows with the greatest checked_at
Newest ==
    {i \in 1 .. Len(node_status_history) :
        \A j \in 1 .. Len(node_status_history) :
            ~TextGreater(node_status_history[j].checked_at,
                         node_status_history[i].checked_at)}

\* C28 as stated: once all updateStatus calls for a node have finished, the
\* node's cached status, response_time and last_status_update equal those of
\* its most recent status-history row (a row with the greatest checked_at),
\* in every interleaving of concurrent updateStatus calls.
C28_CacheMatchesNewestRow ==
    AllFinished =>
        \E i \in Newest :
            StatusFields(nodes[1]) =
                <<node_status_history[i].status,
                  node_status_history[i].response_time,
                  node_status_history[i].checked_at>>

\* ---------------------------------------------------------------------
\* The status route while nodes are created and deleted
\* ---------------------------------------------------------------------

NextStatusApi ==
    \/ NodeCreate(NodeIds)
    \/ NodeDelete
    \/ StatusRequest(StatusIds, StatusBodies, ResponseTimeInputs)
    \/ \E w \in WriterIds : WriterUpdate(w)
    \/ \E w \in WriterIds : WriterInsert(w)
    \/ StatusRespond

SpecStatusApi == InitRegistry /\ [][NextStatusApi]_vars

\* the call made for the request in flight
CallOf(w) == writers[w].pc # "idle" /\ writers[w].req

\* C21 as stated: a status update addressed to a node id that does not exist
\* is reported as not found (Node.updateStatus returns false and the route
\* does not answer success), changes no node and appends no history row.
C21_UnknownNodeNotFound ==
    [][\A w \in WriterIds :
          /\ (/\ CallOf(w) /\ WriterUpdate(w)
              /\ ~NodeExists(nodes, writers[w].id)) =>
                nodes' = nodes
          /\ (/\ CallOf(w) /\ WriterInsert(w)
              /\ ~NodeExists(nodes, writers[w].id)) =>
                /\ node_status_history' = node_status_history
                /\ ~statusRes'.returned
                /\ statusRes'.status # 200]_vars

\* ---------------------------------------------------------------------
\* Repeated calls of getPeers over two nodes
\* ---------------------------------------------------------------------

\* a registry of two nodes without a region, each never reported or
\* reported Online
InitTies ==
    /\ InitPeers
    /\ nodes \in [NodeIds -> FilledRows({"http"}, {NullText}, PeerHealths)]

\* the caller asks for one peer
TiesInputs == [count : {1}, protocol : {""}, region : {NullText}]

NextTies ==
    \/ Taken /\ GetPeers(TiesInputs)
    \/ GetPeersAgain
    \/ PeersCount
    \/ PeersSelect
    \/ PeersReturn
    \/ Taken /\ AtRest /\ WriterStart(1, NodeIds, {<<"Online", <<20>>>>})
    \/ WriterUpdate(1)
    \/ WriterInsert(1)
    \/ WriterReturn(1)

SpecTies == InitTies /\ [][NextTies]_vars

OnlineNode(i) == NodeExists(nodes, i) /\ nodes[i].status = "Online"

\* node a is strictly healthier than node b in the ordering of getPeers
Healthier(a, b) ==
    /\ nodes[a].response_time # <<>>
    /\ nodes[b].response_time = <<>> \/ nodes[a].response_time[1] < nodes[b].response_time[1]

\* node i is eligible, no eligible node is healthier, and another eligible
\* node is exactly as healthy
TiedForFirst(i) ==
    /\ OnlineNode(i)
    /\ \A k \in NodeIds : OnlineNode(k) => ~Healthier(k, i)
    /\ \E j \in NodeIds \ {i} :
          OnlineNode(j) /\ nodes[j].response_time = nodes[i].response_time

\* the SELECT of the call in flight returns node i alone
SelectReturning(i) ==
    /\ PeersSelect
    /\ peersCall'.result.peers = PeerRows(nodes, <<i>>)

\* a call with count = 1 is about to run its SELECT
AtSelectOfOne ==
    peersCall # NoCall /\ peersCall.pc = "select" /\ peersCall.count = 1

\* C14: the order among tied candidates is drawn on every call: whenever a
\* call with count = 1 runs its SELECT, whatever the caller got from its
\* earlier call, the SELECT can return each of the nodes that are tied for
\* the first place.
C14_TieDrawnPerCall ==
    \A i \in NodeIds :
        (AtSelectOfOne /\ TiedForFirst(i)) => ENABLED SelectReturning(i)

\* two nodes are tied for the first place, the caller's earlier call with
\* count = 1 returned the one created last, and it calls again
C14_Witness ==
    /\ AtSelectOfOne
    /\ peersCall.previous = PeerRows(nodes, <<2>>)
    /\ TiedForFirst(1)
    /\ TiedForFirst(2)

\* ---------------------------------------------------------------------
\* The logging hook of apiKeyAuth: res.send calls ApiKey.logAccess without
\* awaiting it and then sends the response
\* ---------------------------------------------------------------------

\* the handler's status for a path: NodeController.getPeers answers 200,
\* the application's 404 handler answers 404
HandlerStatus(path) == IF path = "/peers" THEN 200 ELSE 404

\* each connection carries one request; the clock does not matter here.
\* logAccess fails for a request without User-Agent, on a table without
\* last_used, and when its BEGIN or COMMIT meets the transaction of another
\* request.
NextHook ==
    \/ \E r \in RaceIds : Dispatch(r, Paths, {"valid"}, ApiKeyInputs, UserAgents, {NullText})
    \/ \E r \in RaceIds : ValidateReturns(r)
    \/ \E r \in RaceIds : GetPeersReturns(r)
    \/ \E c \in CallIds : CheckSelect(c)
    \/ \E c \in CallIds : CheckCount(c)
    \/ \E c \in CallIds : TxBegin(c)
    \/ \E c \in CallIds : LogInsert(c)
    \/ \E c \in CallIds : LogUpdate(c)
    \/ \E c \in CallIds : TxCommit(c)
    \/ \E c \in CallIds : TxRollback(c)

SpecHook == InitHttp /\ [][NextHook]_vars

\* the requests on which apiKeyAuth installed the hook and the handler has
\* called res.send
HookRan(r) == reqs[r].pc \in {"logAccess", "done"} /\ reqs[r].hooked

\* C22: access logging is fire-and-forget.  Once the handler of an admitted
\* request has called res.send, the response is sent with the handler's
\* status and body, while logAccess is pending, after it committed and after
\* it failed; the end of logAccess, either way, changes nothing of the
\* response.
C22_FireAndForget ==
    /\ [](\A r \in ReqIds :
            HookRan(r) =>
                /\ reqs[r].sent
                /\ reqs[r].log \in {"pending", "committed", "failed"}
                /\ reqs[r].status = HandlerStatus(reqs[r].path)
                /\ reqs[r].body = Body(HandlerStatus(reqs[r].path)))
    /\ [][\A r \in ReqIds :
            (reqs[r].pc = "logAccess" /\ reqs'[r] # reqs[r]) =>
                /\ reqs'[r].pc = "done"
                /\ reqs'[r].log \in {"committed", "failed"}
                /\ reqs'[r].sent
                /\ reqs'[r].status = reqs[r].status
                /\ reqs'[r].body = reqs[r].body]_vars

\* a request whose logAccess failed after its 200 response was sent, while
\* another one's logAccess is still pending
C22_Witness ==
    \E r, p \in ReqIds :
        /\ reqs[r].pc = "done" /\ reqs[r].log = "failed"
        /\ reqs[r].sent /\ reqs[r].status = 200
        /\ reqs[p].pc = "logAccess" /\ reqs[p].log = "pending" /\ reqs[p].sent

\* ---------------------------------------------------------------------
\* ApiKey.logAccess against the tables of INITIALIZE_SQL
\* ---------------------------------------------------------------------

\* C23 as stated, for requests that carry a User-Agent header: for every
\* completed request admitted with a resolved credential, logAccess appends exactly one access-log entry for that
\* credential and sets the credential's last-used timestamp, against the
\* tables as the repository creates them; the entry is then counted by
\* later checkRateLimit calls made within 60 seconds.
C23_OneEntryPerRequest ==
    (/\ last.op = "logAccess"
     /\ columns = ApiKeysColumns
     /\ TextOrNull(last.call.user_agent) # NullText
     /\ KeyExists(api_keys, last.call.id)) =>
        /\ ~last.threw
        /\ last.call.inserted
        /\ Len(api_access_logs) >= 1
        /\ api_access_logs[Len(api_access_logs)].api_key_id = <<last.call.id>>
        /\ api_access_logs[Len(api_access_logs)].created_at = last.call.at
        /\ api_keys[last.call.id].last_used = last.call.at
        /\ CountRecent(api_access_logs, last.call.id,
                       ToISOString(TimeOf(last.call.at) - Window)) >= 1

\* ---------------------------------------------------------------------
\* The access log as an append-only table
\* ---------------------------------------------------------------------

\* the committed rows of api_access_logs: those a ROLLBACK leaves
Committed == IF conn = NoCall THEN api_access_logs ELSE conn.logs

\* C24 as stated: access-log entries are append-only.  No operation deletes
\* or changes an existing entry, and deleting a credential keeps its
\* access-log entries, with their credential id set to null.
C24_AppendOnly ==
    [][/\ Len(Committed') >= Len(Committed)
       /\ \A i \in 1 .. Len(Committed) :
            /\ Committed'[i].status_code = Committed[i].status_code
            /\ Committed'[i].created_at = Committed[i].created_at
            /\ \/ Committed'[i].api_key_id = Committed[i].api_key_id
               \/ /\ Committed[i].api_key_id # NullText
                  /\ ~KeyExists(api_keys', Committed[i].api_key_id[1])
                  /\ Committed'[i].api_key_id = NullText]_vars

\* ---------------------------------------------------------------------
\* ApiKey.create: calls that overlap on the shared connection, with
\* ApiKey.delete between them
\* ---------------------------------------------------------------------

NextCreate ==
    \/ Create(KeyIds)
    \/ Resting /\ Delete(KeyIds)
    \/ \E c \in CallIds : TxBegin(c)
    \/ \E c \in CallIds : CreateSelect(c, CandidateKeys)
    \/ \E c \in CallIds : CreateInsert(c)
    \/ \E c \in CallIds : DeleteLogs(c)
    \/ \E c \in CallIds : DeleteKey(c)
    \/ \E c \in CallIds : TxCommit(c)
    \/ \E c \in CallIds : TxRollback(c)

\* the event loop runs every statement of a started call
Run(c) ==
    \/ TxBegin(c)
    \/ CreateSelect(c, CandidateKeys)
    \/ CreateInsert(c)
    \/ DeleteLogs(c)
    \/ DeleteKey(c)
    \/ TxCommit(c)
    \/ TxRollback(c)

SpecCreate ==
    InitRegistry /\ [][NextCreate]_vars /\ \A c \in CallIds : WF_vars(Run(c))

Creating(c) == calls[c].pc # "idle" /\ calls[c].op = "create"
CreateSettled == last.op = "create"

\* C25 as stated: ApiKey.create always terminates after generating at most
\* 10 candidate keys.  It returns null, with nothing inserted, only when all
\* 10 candidates collided with stored keys; otherwise it inserts exactly one
\* new active credential whose key differs from every key stored before, so
\* no two credentials ever share a key.
C25_CreateTerminatesUnique ==
    /\ [](\A c \in CallIds : Creating(c) => calls[c].attempts <= maxAttempts)
    /\ \A c \in CallIds : Creating(c) ~> ~Creating(c)
    /\ [](CreateSettled => ~last.threw)
    /\ [](CreateSettled /\ last.call.result = 0 =>
            /\ last.call.attempts = maxAttempts
            /\ last.call.collided = maxAttempts
            /\ api_keys = last.call.keys)
    /\ [](CreateSettled /\ last.call.result # 0 =>
            /\ last.call.keys[last.call.result] = NoRow
            /\ api_keys[last.call.result] # NoRow
            /\ api_keys[last.call.result].is_active
            /\ api_keys[last.call.result].key = last.call.key
            /\ last.call.key \notin StoredKeys(last.call.keys)
            /\ \A i \in KeyIds \ {last.call.result} :
                  api_keys[i] = last.call.keys[i])
    /\ [](\A i, j \in KeyIds :
            (api_keys[i] # NoRow /\ api_keys[j] # NoRow /\ i # j) =>
                api_keys[i].key # api_keys[j].key)

\* ---------------------------------------------------------------------
\* transaction(callback) on the one shared connection, with the callback
\* of ApiKey.logAccess; calls interleave at every await
\* ---------------------------------------------------------------------

NextTx ==
    \/ LogAccess
    \/ \E c \in CallIds : TxBegin(c)
    \/ \E c \in CallIds : LogInsert(c)
    \/ \E c \in CallIds : LogUpdate(c)
    \/ \E c \in CallIds : TxCommit(c)
    \/ \E c \in CallIds : TxRollback(c)

SpecTx == InitLimiter /\ [][NextTx]_vars

\* the rows call c has inserted and not committed
OwnRows(c) == IF calls[c].inserted THEN 1 ELSE 0

\* C26 as stated: operations wrapped in transaction() are atomic also when
\* several run concurrently on the shared connection.  A call that returned
\* successfully has all of its writes committed, and a failure or rollback
\* of one call never discards writes made by another call.
C26_ConcurrentAtomic ==
    /\ [][\A c \in CallIds :
            (TxCommit(c) /\ calls'[c] = Idle) =>
                /\ calls[c].inserted
                /\ conn' = NoCall
                /\ \E i \in 1 .. Len(api_access_logs') :
                      /\ api_access_logs'[i].api_key_id = <<calls[c].id>>
                      /\ api_access_logs'[i].created_at = calls[c].at]_vars
    /\ [][\A c \in CallIds :
            TxRollback(c) =>
                Len(api_access_logs') >= Len(api_access_logs) - OwnRows(c)]_vars

\* ---------------------------------------------------------------------
\* The admin accounts: Admin.create (POST /auth/register and startServer),
\* Admin.update (PUT /auth/me), Admin.delete (DELETE /admins/:id).  Of the
\* columns of admins the model keeps username, email and qq_number;
\* password and the timestamps decide nothing here, and login and
\* updatePassword leave the kept columns as they are.
\* ---------------------------------------------------------------------

Deleters == 1 .. Len(deleters)

\* adminData of Admin.create: "" is an absent email or qq_number.  The data
\* of startServer, those of an account that was never in the table, and
\* those of a registration without email and qq_number
AdminData ==
    {Account(1), Account(MaxAdmins),
     [username |-> "erin", email |-> "", qq_number |-> ""]}

\* updates of Admin.update: given names the fields that are not undefined
AdminUpdates ==
    {[given |-> {"username"}, username |-> "bob", email |-> ""],
     [given |-> {"email"}, username |-> "", email |-> "admin@example.com"]}

\* req.params.id of DELETE /admins/:id: the id of an account, 0 or no number
DigitChars == <<"0", "1", "2", "3", "4", "5", "6", "7", "8", "9">>
IdParams == {<<DigitChars[i + 1]>> : i \in 0 .. MaxAdmins} \cup {<<"x">>}

AdminExists(table, i) == i \in DOMAIN table /\ table[i] # NoRow

AdminsIn(table) == {i \in DOMAIN table : table[i] # NoRow}

\* SELECT id FROM admins WHERE username = ? [AND id != ?]: some row but
\* `id` has the name
UsernameTaken(table, username, id) ==
    \E i \in AdminsIn(table) : i # id /\ table[i].username = username

\* the constraints of the admins table on a row stored under `id`: email
\* and qq_number are NOT NULL (`value || null` stores '' as NULL) and UNIQUE
Storable(table, id, row) ==
    /\ row.email # ""
    /\ row.qq_number # ""
    /\ \A i \in AdminsIn(table) :
          i # id => /\ table[i].email # row.email
                    /\ table[i].qq_number # row.qq_number

\* the SET list built by Admin.update, applied to the row
applyAdminUpdate(row, updates) ==
    [row EXCEPT
        !.username = IF "username" \in updates.given THEN updates.username
                     ELSE @,
        !.email = IF "email" \in updates.given THEN updates.email ELSE @]

\* what the admin operations never write
adminRest == <<now, tz, ticks, columns, api_keys, nextKeyId, api_access_logs,
               reqs, nodes, peersCall, nextNodeId, node_status_history,
               writers, peersRes, statusRes>>

\* the admins table holds one or more of the accounts created so far
InitAdmins ==
    /\ now \in StartTimes
    /\ tz \in {UTC}
    /\ ticks = 0
    /\ api_keys = [i \in KeyIds |-> NoRow]
    /\ nextKeyId = 1
    /\ api_access_logs = <<>>
    /\ last = NoCall
    /\ reqs = [r \in ReqIds |-> Idle]
    /\ nodes = [i \in NodeIds |-> NoRow]
    /\ peersCall = NoCall
    /\ nextNodeId = 1
    /\ node_status_history = <<>>
    /\ writers = [w \in WriterIds |-> Idle]
    /\ peersRes = NoCall
    /\ statusRes = NoCall
    /\ nextAdminId = MaxAdmins
    /\ \E S \in (SUBSET (1 .. MaxAdmins - 1)) \ {{}} :
          admins = [i \in AdminIds |-> IF i \in S THEN Account(i) ELSE NoRow]
    /\ deleters = <<>>
    /\ conn = NoCall
    /\ calls = [c \in CallIds |-> Idle]
    /\ columns = ApiKeysColumns

\* a request that was answered and whose response was delivered
Sent == [pc |-> "sent", user |-> 0, adminId |-> <<>>, count |-> 0,
         status |-> 0]

\* a caller takes the outcome of its call, and a client its response,
\* before anything else runs
AdminTaken ==
    /\ last = NoCall
    /\ \A d \in Deleters : deleters[d].pc # "done"

\* the admin operations in progress: at most MaxOverlap overlap
AdminOverlap ==
    Cardinality({c \in CallIds : calls[c] # Idle})
        + Cardinality({d \in Deleters :
                          deleters[d].pc \in {"count", "delete"}})

AdminMayBegin == AdminTaken /\ AdminOverlap < MaxOverlap

\* the caller of a settled call has taken its outcome
AdminOutcomeTaken ==
    /\ last # NoCall
    /\ last' = NoCall
    /\ UNCHANGED <<adminRest, admins, nextAdminId, deleters, conn, calls>>

\* Admin.create(adminData) is called, by AdminController.register or by
\* startServer: transaction() is entered.  The ids are bounded by MaxAdmins.
AdminCreate(c, inputs) ==
    /\ Free(c)
    /\ AdminMayBegin
    /\ nextAdminId + InFlight("adminCreate") <= MaxAdmins
    /\ \E adminData \in inputs :
          calls' = [calls EXCEPT ![c] = AdminCreateCall(adminData)]
    /\ UNCHANGED <<adminRest, last, admins, nextAdminId, deleters, conn>>

\* await tx.get("SELECT id FROM admins WHERE username = ?"): with a row the
\* callback returns null and COMMIT is awaited
AdminCreateExisting(c) ==
    /\ calls[c].pc = "existing" /\ calls[c].op = "adminCreate"
    /\ calls' = [calls EXCEPT ![c].pc =
                    IF UsernameTaken(admins, calls[c].adminData.username, 0)
                    THEN "commit" ELSE "insertAdmin"]
    /\ UNCHANGED <<adminRest, last, admins, nextAdminId, deleters, conn>>

\* await tx.run("INSERT INTO admins ..."): the row gets the next id, or the
\* statement fails on a constraint and the catch block is entered
AdminCreateInsert(c) ==
    /\ calls[c].pc = "insertAdmin" /\ calls[c].op = "adminCreate"
    /\ IF Storable(admins, 0, calls[c].adminData)
       THEN /\ admins' = [admins EXCEPT ![nextAdminId] = calls[c].adminData]
            /\ nextAdminId' = nextAdminId + 1
            /\ calls' = [calls EXCEPT ![c] =
                            [@ EXCEPT !.pc = "commit",
                                      !.result = nextAdminId]]
       ELSE /\ calls' = [calls EXCEPT ![c].pc = "rollback"]
            /\ UNCHANGED <<admins, nextAdminId>>
    /\ UNCHANGED <<adminRest, last, deleters, conn>>

\* Admin.update(id, updates) is called by AdminController.updateMe with the id of the request's token: transaction() is entered
AdminUpdate(c, ids, inputs) ==
    /\ Free(c)
    /\ AdminMayBegin
    /\ \E id \in ids, updates \in inputs :
          calls' = [calls EXCEPT ![c] = AdminUpdateCall(id, updates)]
    /\ UNCHANGED <<adminRest, last, admins, nextAdminId, deleters, conn>>

\* await tx.get("SELECT id FROM admins WHERE id = ?"): without a row the
\* callback returns null and COMMIT is awaited; with a username to set the
\* next statement looks for it, otherwise the UPDATE runs
AdminUpdateExisting(c) ==
    /\ calls[c].pc = "existingAdmin" /\ calls[c].op = "adminUpdate"
    /\ calls' = [calls EXCEPT ![c].pc =
                    IF ~AdminExists(admins, calls[c].id) THEN "commit"
                    ELSE IF "username" \in calls[c].updates.given
                    THEN "otherAdmin"
                    ELSE "setAdmin"]
    /\ UNCHANGED <<adminRest, last, admins, nextAdminId, deleters, conn>>

\* await tx.get("SELECT id FROM admins WHERE username = ? AND id != ?"):
\* with a row the callback returns null and COMMIT is awaited
AdminUpdateOther(c) ==
    /\ calls[c].pc = "otherAdmin" /\ calls[c].op = "adminUpdate"
    /\ calls' = [calls EXCEPT ![c].pc =
                    IF UsernameTaken(admins, calls[c].updates.username,
                                     calls[c].id)
                    THEN "commit" ELSE "setAdmin"]
    /\ UNCHANGED <<adminRest, last, admins, nextAdminId, deleters, conn>>

\* await tx.run("UPDATE admins SET ... WHERE id = ?"): a row that is gone
\* is not an error; a row that breaks a constraint is, and the catch block
\* is entered
AdminUpdateSet(c) ==
    /\ calls[c].pc = "setAdmin" /\ calls[c].op = "adminUpdate"
    /\ LET id == calls[c].id
           row == applyAdminUpdate(admins[id], calls[c].updates)
       IN  IF ~AdminExists(admins, id)
           THEN /\ admins' = admins
                /\ calls' = [calls EXCEPT ![c].pc = "rereadAdmin"]
           ELSE IF Storable(admins, id, row)
           THEN /\ admins' = [admins EXCEPT ![id] = row]
                /\ calls' = [calls EXCEPT ![c].pc = "rereadAdmin"]
           ELSE /\ admins' = admins
                /\ calls' = [calls EXCEPT ![c].pc = "rollback"]
    /\ UNCHANGED <<adminRest, last, nextAdminId, deleters, conn>>

\* await tx.get("SELECT id, username, email, ... FROM admins WHERE id = ?"):
\* the callback returns the row, and COMMIT is awaited
AdminUpdateReread(c) ==
    /\ calls[c].pc = "rereadAdmin" /\ calls[c].op = "adminUpdate"
    /\ calls' = [calls EXCEPT ![c] =
                    [@ EXCEPT !.pc = "commit",
                              !.result = admins[calls[c].id]]]
    /\ UNCHANGED <<adminRest, last, admins, nextAdminId, deleters, conn>>

\* AdminController.delete up to its await.  req.user is what the verified
\* token carries: authenticateJwt does not look the account up, so `user`
\* is the id of any account, in the table or deleted since its login.  A
\* parameter that is no number >= 1 and one's own id are answered 400.
AdminDeleteRequest ==
    /\ Len(deleters) < MaxDeleters
    /\ AdminMayBegin
    /\ \E user \in AdminIds, param \in IdParams :
          LET adminId == ParseInt(param)
          IN  deleters' = Append(deleters,
                IF \/ ~validateNumber(adminId, <<1>>, <<>>)
                   \/ adminId[1] = user
                THEN [pc |-> "done", user |-> user, adminId |-> adminId,
                      count |-> 0, status |-> 400]
                ELSE [pc |-> "count", user |-> user, adminId |-> adminId,
                      count |-> 0, status |-> 0])
    /\ UNCHANGED <<adminRest, last, admins, nextAdminId, conn, calls>>

\* Admin.delete: await db.get("SELECT COUNT(*) as count FROM admins"); with
\* count <= 1 it returns false and the controller answers 404
AdminCount(d) ==
    /\ deleters[d].pc = "count"
    /\ LET count == Cardinality(AdminsIn(admins))
       IN  deleters' = [deleters EXCEPT ![d] =
                          IF count <= 1
                          THEN [@ EXCEPT !.pc = "done", !.count = count,
                                         !.status = 404]
                          ELSE [@ EXCEPT !.pc = "delete", !.count = count]]
    /\ UNCHANGED <<adminRest, last, admins, nextAdminId, conn, calls>>

\* Admin.delete: await db.run("DELETE FROM admins WHERE id = ?"), returning
\* changes > 0; the controller answers 200, or 404 when no row was deleted
AdminDeleteRow(d) ==
    /\ deleters[d].pc = "delete"
    /\ LET id == deleters[d].adminId[1]
       IN  /\ admins' = [i \in AdminIds |-> IF i = id THEN NoRow ELSE admins[i]]
           /\ deleters' = [deleters EXCEPT ![d] =
                             [@ EXCEPT !.pc = "done",
                                       !.status = IF AdminExists(admins, id)
                                                  THEN 200 ELSE 404]]
    /\ UNCHANGED <<adminRest, last, nextAdminId, conn, calls>>

\* the response of DELETE /admins/:id was delivered
AdminRespond(d) ==
    /\ deleters[d].pc = "done"
    /\ deleters' = [deleters EXCEPT ![d] = Sent]
    /\ UNCHANGED <<adminRest, last, admins, nextAdminId, conn, calls>>

NextAdmins ==
    \/ AdminOutcomeTaken
    \/ \E c \in CallIds : AdminCreate(c, AdminData)
    \/ \E c \in CallIds : AdminTaken /\ AdminCreateExisting(c)
    \/ \E c \in CallIds : AdminTaken /\ AdminCreateInsert(c)
    \/ \E c \in CallIds : AdminUpdate(c, AdminIds, AdminUpdates)
    \/ \E c \in CallIds : AdminTaken /\ AdminUpdateExisting(c)
    \/ \E c \in CallIds : AdminTaken /\ AdminUpdateOther(c)
    \/ \E c \in CallIds : AdminTaken /\ AdminUpdateSet(c)
    \/ \E c \in CallIds : AdminTaken /\ AdminUpdateReread(c)
    \/ \E c \in CallIds : AdminTaken /\ TxBegin(c)
    \/ \E c \in CallIds : AdminTaken /\ TxCommit(c)
    \/ \E c \in CallIds : AdminTaken /\ TxRollback(c)
    \/ AdminDeleteRequest
    \/ \E d \in Deleters : AdminTaken /\ AdminCount(d)
    \/ \E d \in Deleters : AdminTaken /\ AdminDeleteRow(d)
    \/ \E d \in Deleters : AdminRespond(d)

SpecAdmins == InitAdmins /\ [][NextAdmins]_vars

\* C29 as stated: at least one admin account always exists.  Admin.delete
\* refuses to delete when only one admin remains, and starting from one or
\* more admins no sequence or interleaving of delete requests (an admin may
\* delete others but not their own account) brings the number of admins to
\* zero.
C29_AdminAlwaysExists ==
    /\ \A d \in Deleters :
          deleters[d].pc = "delete" => deleters[d].count > 1
    /\ \A d \in Deleters :
          deleters[d].status = 200 =>
              deleters[d].adminId[1] # deleters[d].user
    /\ Cardinality(AdminsIn(admins)) >= 1


\* ---------------------------------------------------------------------
\* Retrying while denied: requests through apiKeyAuth one at a time, with
\* and without a valid key
\* ---------------------------------------------------------------------

NextRetry ==
    \/ Tick
    \/ \E r \in ReqIds : Quiet /\ Dispatch(r, {"/other"}, {"valid"}, ApiKeyInputs, UserAgents, {NullText})
    \/ \E r \in ReqIds : ValidateReturns(r)
    \/ \E c \in CallIds : CheckSelect(c)
    \/ \E c \in CallIds : CheckCount(c)
    \/ \E c \in CallIds : TxBegin(c)
    \/ \E c \in CallIds : LogInsert(c)
    \/ \E c \in CallIds : LogUpdate(c)
    \/ \E c \in CallIds : TxCommit(c)
    \/ \E c \in CallIds : TxRollback(c)

SpecRetry == InitHttp /\ [][NextRetry]_vars

\* the request was answered 401 or 429 by apiKeyAuth
Rejected(r) == reqs[r].pc = "done" /\ reqs[r].status \in {401, 429}

\* the request's logAccess committed
Logged(r) == reqs[r].pc # "idle" /\ reqs[r].log = "committed"

\* entries of the credential that were there when r was checked and are
\* stamped later than 60 s before instant t
StillCounted(r, t) ==
    Cardinality({i \in 1 .. Len(Committed) :
        /\ Committed[i].api_key_id = <<1>>
        /\ TimeOf(Committed[i].created_at) <= reqs[r].checkAt
        /\ t - Window < TimeOf(Committed[i].created_at)})

\* s is checked after the denied r with no admitted request in between
RetryOf(r, s) ==
    /\ Denied(r) /\ Rejected(r)
    /\ Checked(s) /\ r < s
    /\ \A q \in ReqIds : (r < q /\ q < s) => ~Admitted(q)

\* C30: requests rejected by apiKeyAuth (401 or 429) append no access-log
\* entry, so retrying while denied never prolongs the denial: a credential
\* denied at time t is admitted again by the first check made after enough of
\* its counted entries are older than 60 seconds, which is at most 60 seconds
\* after t when no admitted request is logged in between.
C30_DenialNotProlonged ==
    /\ \A r \in ReqIds :
          Rejected(r) => (~reqs[r].hooked /\ reqs[r].log = "none")
    /\ Len(Committed) = Cardinality({r \in ReqIds : Logged(r)})
    /\ \A r, s \in ReqIds :
          RetryOf(r, s) =>
              /\ StillCounted(r, reqs[s].checkAt) < api_keys[1].rate_limit
                    => Admitted(s)
              /\ reqs[s].checkAt >= reqs[r].checkAt + Window => Admitted(s)

\* a credential denied at t, denied again on a retry, and admitted by the
\* first check made 60 s or more after t
C30_Witness ==
    \E r, q, s \in ReqIds :
        /\ r < q /\ q < s
        /\ RetryOf(r, s)
        /\ Denied(q) /\ Rejected(q)
        /\ reqs[q].checkAt < reqs[r].checkAt + Window
        /\ reqs[s].checkAt >= reqs[r].checkAt + Window
        /\ Admitted(s)
        /\ Len(api_access_logs) = 1

====
